---- MODULE Spec2Model ----
(***************************************************************************)
(* Model of the Rifcare web summarizer extension: the extractive           *)
(* summarizer and QA matcher (content_script.js, background.js), the       *)
(* highlight injector / remover working on the page document               *)
(* (content_script.js), the background orchestrator with its three tiers   *)
(* (background.js) and the popup that consumes its responses (popup.js).   *)
(*                                                                         *)
(* A JavaScript string is modelled as a sequence of one-character strings. *)
(***************************************************************************)
EXTENDS Integers, Sequences, FiniteSets, TLC

(***************************************************************************)
(* Characters and character classes of the regular expressions             *)
(***************************************************************************)
LowerLetters == <<"a","b","c","d","e","f","g","h","i","j","k","l","m",
                  "n","o","p","q","r","s","t","u","v","w","x","y","z">>

UpperLetters == <<"A","B","C","D","E","F","G","H","I","J","K","L","M",
                  "N","O","P","Q","R","S","T","U","V","W","X","Y","Z">>

Digits == {"0","1","2","3","4","5","6","7","8","9"}

\* \s of the regular expressions (the characters the model's texts use)
IsSpace(c) == c \in {" ", "\n", "\r", "\t"}

\* [.!?] of the sentence boundary
IsTerminator(c) == c \in {".", "!", "?"}

LowerOf ==
    [c \in {UpperLetters[i] : i \in 1..Len(UpperLetters)} |->
        LowerLetters[CHOOSE i \in 1..Len(UpperLetters) : UpperLetters[i] = c]]

\* String.prototype.toLowerCase, one character
LowerChar(c) == IF c \in DOMAIN LowerOf THEN LowerOf[c] ELSE c

ToLowerCase(s) == [i \in 1..Len(s) |-> LowerChar(s[i])]

WordChars ==
    {LowerLetters[i] : i \in 1..Len(LowerLetters)} \cup Digits
        \cup {" ", "\n", "\r", "\t"}

\* the characters kept by replace(/[^a-z0-9\s]/g, '')
IsWordChar(c) == c \in WordChars

(***************************************************************************)
(* String helpers                                                          *)
(***************************************************************************)
RECURSIVE Flatten(_)
\* concatenation of a sequence of strings
Flatten(ss) == IF ss = <<>> THEN <<>> ELSE Head(ss) \o Flatten(Tail(ss))

RECURSIVE Join(_, _)
\* Array.prototype.join
Join(ss, sep) ==
    IF ss = <<>> THEN <<>>
    ELSE IF Len(ss) = 1 THEN ss[1]
    ELSE ss[1] \o sep \o Join(Tail(ss), sep)

\* Array.prototype.filter(Boolean) on an array of strings
FilterNonEmpty(ss) == SelectSeq(ss, LAMBDA x : x # <<>>)

\* Array.prototype.slice(0, n) and String.prototype.slice(0, n), n >= 0
Take(s, n) == SubSeq(s, 1, IF n < Len(s) THEN n ELSE Len(s))

\* String.prototype.slice(n)
Drop(s, n) == SubSeq(s, n + 1, Len(s))

\* Array.prototype.includes
Includes(ss, x) == \E i \in 1..Len(ss) : ss[i] = x

RECURSIVE TrimStart(_)
TrimStart(s) == IF s # <<>> /\ IsSpace(Head(s)) THEN TrimStart(Tail(s)) ELSE s

RECURSIVE TrimEnd(_)
TrimEnd(s) ==
    IF s # <<>> /\ IsSpace(s[Len(s)]) THEN TrimEnd(SubSeq(s, 1, Len(s) - 1)) ELSE s

\* String.prototype.trim
Trim(s) == TrimEnd(TrimStart(s))

\* the least index of a non-empty set of indices
MinOf(S) == CHOOSE i \in S : \A j \in S : i <= j

\* the index after the whitespace run that starts at i
SkipSpaces(s, i) ==
    LET c == {j \in i..Len(s) : ~IsSpace(s[j])}
    IN  IF c = {} THEN Len(s) + 1 ELSE MinOf(c)

\* replace(/\s+/g, ' '): of every whitespace run one space is left
CollapseWs(s) ==
    LET kept == SelectSeq([i \in 1..Len(s) |-> i],
                          LAMBDA i : ~IsSpace(s[i]) \/ i = 1 \/ ~IsSpace(s[i - 1]))
    IN  [k \in 1..Len(kept) |-> IF IsSpace(s[kept[k]]) THEN " " ELSE s[kept[k]]]

RECURSIVE SplitWsFrom(_, _)
\* the pieces of s from index i on, cut at every whitespace run
SplitWsFrom(s, i) ==
    LET c == {j \in i..Len(s) : IsSpace(s[j])}
    IN  IF c = {} THEN <<SubSeq(s, i, Len(s))>>
        ELSE <<SubSeq(s, i, MinOf(c) - 1)>>
                 \o SplitWsFrom(s, SkipSpaces(s, MinOf(c)))

\* split(/\s+/)
SplitWs(s) == SplitWsFrom(s, 1)

RECURSIVE SplitCharFrom(_, _, _)
\* the pieces of s from index i on, cut at every character of seps
SplitCharFrom(s, seps, i) ==
    LET c == {j \in i..Len(s) : s[j] \in seps}
    IN  IF c = {} THEN <<SubSeq(s, i, Len(s))>>
        ELSE <<SubSeq(s, i, MinOf(c) - 1)>>
                 \o SplitCharFrom(s, seps, MinOf(c) + 1)

\* split on every single occurrence of one of the characters seps:
\* split(' ') with seps = {" "}, split(/\n|\r/) with seps = {"\n", "\r"}
SplitChar(s, seps) == SplitCharFrom(s, seps, 1)

\* whether pat occurs in s at index i (1-based)
MatchesAt(s, pat, i) ==
    /\ i + Len(pat) - 1 <= Len(s)
    /\ \A k \in 1..Len(pat) : s[i + k - 1] = pat[k]

\* String.prototype.includes
StrIncludes(s, pat) ==
    \E i \in 1..(Len(s) + 1 - Len(pat)) : MatchesAt(s, pat, i)

\* String.prototype.indexOf, 1-based; 0 stands for JavaScript's -1
IndexOf(s, pat) ==
    LET c == {i \in 1..(Len(s) + 1 - Len(pat)) : MatchesAt(s, pat, i)}
    IN  IF c = {} THEN 0 ELSE MinOf(c)

RECURSIVE SplitStrFrom(_, _, _)
\* the pieces of s from index i on, cut at every occurrence of pat
SplitStrFrom(s, pat, i) ==
    LET c == {j \in i..Len(s) : MatchesAt(s, pat, j)}
    IN  IF c = {} THEN <<SubSeq(s, i, Len(s))>>
        ELSE <<SubSeq(s, i, MinOf(c) - 1)>>
                 \o SplitStrFrom(s, pat, MinOf(c) + Len(pat))

\* split(pat) for a non-empty string pat
SplitStr(s, pat) == SplitStrFrom(s, pat, 1)

(***************************************************************************)
(* Text segmenter, frequency scorer and summary composer                   *)
(* (content_script.js summarizeText, background.js extractiveSummarize)    *)
(***************************************************************************)
StopWords ==
    {<<"t","h","e">>, <<"a","n","d">>, <<"i","s">>, <<"i","n">>, <<"t","o">>,
     <<"o","f">>, <<"a">>, <<"t","h","a","t">>, <<"i","t">>, <<"f","o","r">>,
     <<"o","n">>, <<"w","i","t","h">>, <<"a","s">>, <<"a","r","e">>,
     <<"w","a","s">>, <<"b","y">>, <<"a","n">>, <<"b","e">>,
     <<"t","h","i","s">>, <<"o","r">>, <<"f","r","o","m">>, <<"a","t">>,
     <<"w","h","i","c","h">>, <<"y","o","u">>}

HighlightsDelimiter ==
    <<"=","=","=","H","I","G","H","L","I","G","H","T","S","=","=","=">>

RECURSIVE SplitSentFrom(_, _)
\* the pieces of s from index i on, cut at every whitespace run that follows
\* a terminator
SplitSentFrom(s, i) ==
    LET c == {j \in i..Len(s) :
                 IsSpace(s[j]) /\ j > 1 /\ IsTerminator(s[j - 1])}
    IN  IF c = {} THEN <<SubSeq(s, i, Len(s))>>
        ELSE <<SubSeq(s, i, MinOf(c) - 1)>>
                 \o SplitSentFrom(s, SkipSpaces(s, MinOf(c)))

\* split(/(?<=[.!?])\s+/)
SplitSentences(s) == SplitSentFrom(s, 1)

\* a variant without the map(s => s.trim())
Segment_NoTrim(text) ==
    LET parts == SplitSentences(CollapseWs(text))
    IN  FilterNonEmpty(parts)

\* text.replace(/\s+/g,' ').split(/(?<=[.!?])\s+/).map(s => s.trim()).filter(Boolean)
Segment(text) ==
    LET parts == SplitSentences(CollapseWs(text))
    IN  FilterNonEmpty([i \in 1..Len(parts) |-> Trim(parts[i])])

\* s.toLowerCase().replace(/[^a-z0-9\s]/g,'').split(/\s+/).filter(Boolean)
Words(s) ==
    FilterNonEmpty(SplitWs(SelectSeq(ToLowerCase(s), IsWordChar)))

RECURSIVE CountIn(_, _)
\* occurrences of w in the word list ws
CountIn(w, ws) ==
    IF ws = <<>> THEN 0
    ELSE (IF Head(ws) = w THEN 1 ELSE 0) + CountIn(w, Tail(ws))

\* the words counted by the frequency loop: those of every sentence, in
\* order, without the stop words
CountedWords(sents) ==
    SelectSeq(Flatten([i \in 1..Len(sents) |-> Words(sents[i])]),
              LAMBDA w : w \notin StopWords)

\* a variant that notes whether a word occurs, not how often
FreqOf_Presence(w, counted) == IF CountIn(w, counted) > 0 THEN 1 ELSE 0

\* freqs[w] after the loop over all sentences; 0 stands for "no entry"
FreqOf(w, counted) == CountIn(w, counted)

RECURSIVE SumFreqs(_, _)
\* let score = 0; for (const w of words) if (freqs[w]) score += freqs[w]
SumFreqs(ws, counted) ==
    IF ws = <<>> THEN 0
    ELSE FreqOf(Head(ws), counted) + SumFreqs(Tail(ws), counted)

RECURSIVE InsertByScore_TiesReversed(_, _)
\* a variant of the sort that puts x before the elements of equal score
InsertByScore_TiesReversed(x, sorted) ==
    IF sorted = <<>> THEN <<x>>
    ELSE IF Head(sorted).score > x.score
         THEN <<Head(sorted)>> \o InsertByScore_TiesReversed(x, Tail(sorted))
         ELSE <<x>> \o sorted

RECURSIVE InsertByScore(_, _)
\* x goes after every element whose score is not smaller (stable)
InsertByScore(x, sorted) ==
    IF sorted = <<>> THEN <<x>>
    ELSE IF Head(sorted).score >= x.score
         THEN <<Head(sorted)>> \o InsertByScore(x, Tail(sorted))
         ELSE <<x>> \o sorted

RECURSIVE SortByScoreDesc(_)
\* items.sort((a,b) => b.score - a.score), a stable sort
SortByScoreDesc(items) ==
    IF items = <<>> THEN <<>>
    ELSE InsertByScore(items[Len(items)],
                       SortByScoreDesc(SubSeq(items, 1, Len(items) - 1)))

\* sents.map(s => ({s, score})) followed by the sort
Scored(sents) ==
    LET counted == CountedWords(sents)
    IN  SortByScoreDesc([i \in 1..Len(sents) |->
            [s |-> sents[i], score |-> SumFreqs(Words(sents[i]), counted)]])

\* scored.slice(0, maxBullets).map(x => x.s.replace(/\s+/g,' ').trim())
SelectBullets(scored, maxBullets) ==
    LET top == Take(scored, maxBullets)
    IN  [i \in 1..Len(top) |-> Trim(CollapseWs(top[i].s))]

RECURSIVE CollectHighlights_SkipsSix(_, _, _, _)
\* a variant that also skips the sentences of exactly 6 tokens
CollectHighlights_SkipsSix(scored, bullets, maxHighlights, acc) ==
    IF scored = <<>> \/ Len(acc) >= maxHighlights THEN acc
    ELSE LET item == Head(scored)
         IN  IF Includes(bullets, item.s)
                 \/ Len(SplitChar(item.s, {" "})) <= 6
             THEN CollectHighlights_SkipsSix(Tail(scored), bullets,
                                             maxHighlights, acc)
             ELSE CollectHighlights_SkipsSix(Tail(scored), bullets,
                                             maxHighlights, Append(acc, item.s))

RECURSIVE CollectHighlights(_, _, _, _)
\* the for loop over scored: skip bullets and sentences of fewer than 6 tokens
CollectHighlights(scored, bullets, maxHighlights, acc) ==
    IF scored = <<>> \/ Len(acc) >= maxHighlights THEN acc
    ELSE LET item == Head(scored)
         IN  IF Includes(bullets, item.s)
                 \/ Len(SplitChar(item.s, {" "})) < 6
             THEN CollectHighlights(Tail(scored), bullets, maxHighlights, acc)
             ELSE CollectHighlights(Tail(scored), bullets, maxHighlights,
                                    Append(acc, item.s))

Min(a, b) == IF a < b THEN a ELSE b

RECURSIVE PadHighlights_ToBullets(_, _, _)
\* a variant that pads until there are as many highlights as bullets
PadHighlights_ToBullets(highlights, bullets, maxHighlights) ==
    IF Len(highlights) < Len(bullets)
    THEN PadHighlights_ToBullets(Append(highlights, bullets[Len(highlights) + 1]),
                                 bullets, maxHighlights)
    ELSE highlights

RECURSIVE PadHighlights(_, _, _)
\* while (highlights.length < Math.min(maxHighlights, bullets.length)) push(...)
PadHighlights(highlights, bullets, maxHighlights) ==
    IF Len(highlights) < Min(maxHighlights, Len(bullets))
    THEN PadHighlights(Append(highlights, bullets[Len(highlights) + 1]),
                       bullets, maxHighlights)
    ELSE highlights

SelectHighlights(scored, bullets, maxHighlights) ==
    PadHighlights(CollectHighlights(scored, bullets, maxHighlights, <<>>),
                  bullets, maxHighlights)

\* bullets.map(b => `- ${b}`).join('\n') + '\n\n===HIGHLIGHTS===\n' + highlights.join('\n')
FormatWire(bullets, highlights) ==
    Join([i \in 1..Len(bullets) |-> <<"-", " ">> \o bullets[i]], <<"\n">>)
        \o <<"\n", "\n">> \o HighlightsDelimiter \o <<"\n">>
        \o Join(highlights, <<"\n">>)

EmptySummary == [bullets |-> <<>>, highlights |-> <<>>, raw |-> <<>>]

\* content_script.js summarizeText(raw, maxBullets, maxHighlights)
SummarizeText(raw, maxBullets, maxHighlights) ==
    IF raw = <<>> THEN EmptySummary
    ELSE LET sents == Segment(raw)
         IN  IF sents = <<>> THEN EmptySummary
             ELSE LET scored     == Scored(sents)
                      bullets    == SelectBullets(scored, maxBullets)
                      highlights == SelectHighlights(scored, bullets, maxHighlights)
                  IN  [bullets    |-> bullets,
                       highlights |-> highlights,
                       raw        |-> FormatWire(bullets, highlights)]

\* the arrays bullets and highlights built by background.js extractiveSummarize
\* (both empty on the paths that return '' before building them)
ExtractiveSelection(rawText, maxBullets, maxHighlights) ==
    LET sents == Segment(rawText)
    IN  IF rawText = <<>> \/ Trim(rawText) = <<>> \/ sents = <<>>
        THEN [bullets |-> <<>>, highlights |-> <<>>]
        ELSE LET scored  == Scored(sents)
                 bullets == SelectBullets(scored, maxBullets)
             IN  [bullets    |-> bullets,
                  highlights |-> SelectHighlights(scored, bullets, maxHighlights)]

\* background.js extractiveSummarize(rawText, maxBullets, maxHighlights)
ExtractiveSummarize(rawText, maxBullets, maxHighlights) ==
    IF rawText = <<>> \/ Trim(rawText) = <<>> THEN <<>>
    ELSE IF Segment(rawText) = <<>> THEN <<>>
    ELSE LET sel == ExtractiveSelection(rawText, maxBullets, maxHighlights)
         IN  FormatWire(sel.bullets, sel.highlights)

(***************************************************************************)
(* QA matcher (content_script.js answerQuestion, background.js ask tier 3) *)
(***************************************************************************)
NoContentSentinel ==
    <<"N","o"," ","c","o","n","t","e","n","t"," ","t","o"," ","a","n","s",
      "w","e","r"," ","f","r","o","m",".">>

NoAnswerFound ==
    <<"N","o"," ","a","n","s","w","e","r"," ","f","o","u","n","d">>

\* cleanQ.split(/\s+/).filter(w => w.length > 2)
QuestionWords(question) ==
    SelectSeq(SplitWs(SelectSeq(ToLowerCase(question), IsWordChar)),
              LAMBDA w : Len(w) > 2)

RECURSIVE CountMatches(_, _)
\* for (const w of qWords) if (lw.includes(w)) score += 1
CountMatches(lw, qWords) ==
    IF qWords = <<>> THEN 0
    ELSE (IF StrIncludes(lw, Head(qWords)) THEN 1 ELSE 0)
         + CountMatches(lw, Tail(qWords))

QaScored(sents, qWords) ==
    SortByScoreDesc([i \in 1..Len(sents) |->
                        [s     |-> sents[i],
                         score |-> CountMatches(ToLowerCase(sents[i]), qWords)]])

\* a variant that takes a sentence of six tokens for a long one
FindLong_SixOrMore(sents) ==
    LET long == SelectSeq(sents, LAMBDA s : Len(SplitChar(s, {" "})) >= 6)
    IN  IF long = <<>> THEN <<>> ELSE long[1]

\* sents.find(s => s.split(' ').length > 6); <<>> stands for undefined
FindLong(sents) ==
    LET long == SelectSeq(sents, LAMBDA s : Len(SplitChar(s, {" "})) > 6)
    IN  IF long = <<>> THEN <<>> ELSE long[1]

\* content_script.js answerQuestion(pageText, question).answer
AnswerQuestion(pageText, question) ==
    LET qWords == QuestionWords(question)
        sents  == Segment(pageText)
    IN  IF sents = <<>> THEN NoContentSentinel
        ELSE LET scores == QaScored(sents, qWords)
                 best   == scores[1]
             IN  IF best.score > 0 THEN best.s
                 ELSE IF FindLong(sents) # <<>> THEN FindLong(sents)
                 ELSE sents[1]

\* background.js, the extractive answer of the ask handler (finalAnswer)
BgExtractiveAnswer(text, question) ==
    LET qWords == QuestionWords(question)
        sents  == Segment(text)
        scores == QaScored(sents, qWords)
    IN  IF scores # <<>> /\ scores[1].score > 0 THEN scores[1].s
        ELSE IF FindLong(sents) # <<>> THEN FindLong(sents)
        ELSE IF sents # <<>> THEN sents[1]
        ELSE NoAnswerFound

(***************************************************************************)
(* Inputs of the pure functions: texts made of a few pieces                *)
(***************************************************************************)
\* how many pieces a text is made of, at most
MaxPieces == 3

\* the largest maxBullets / maxHighlights argument tried
MaxParam == 3

\* two long sentences, two short ones, a whitespace run, and a fragment
\* without terminator that starts with a dash
TextPieces ==
    {<<"A","b"," ","c"," ","d"," ","e"," ","f"," ","g","."," ">>,
     <<"t","h","e"," ","b"," ","c"," ","d"," ","e"," ","f","."," ">>,
     <<"c","."," ","b","?"," ">>,
     <<" ","\n">>,
     <<"-","d">>}

RECURSIVE PieceSeqs(_)
\* the sequences of at most n pieces
PieceSeqs(n) ==
    IF n = 0 THEN {<<>>}
    ELSE LET shorter == PieceSeqs(n - 1)
         IN  shorter \cup {Append(ps, p) : ps \in shorter, p \in TextPieces}

\* four sentences, two of which share a word
CatsText ==
    <<"C","a","t","s"," ","a","r","e"," ","m","a","m","m","a","l","s",".",
      " ","D","o","g","s"," ","a","r","e"," ","m","a","m","m","a","l","s",
      " ","t","o","o","."," ","B","i","r","d","s"," ","c","a","n"," ","f",
      "l","y","."," ","F","i","s","h"," ","l","i","v","e"," ","i","n"," ",
      "w","a","t","e","r",".">>

\* a sentence of seven words between two short ones
LongText ==
    <<"c","."," ","A"," ","b"," ","c"," ","d"," ","e"," ","f"," ","g",".",
      " ","b","?">>

\* terminators that no whitespace follows, and a whitespace run
DottedText == <<"a", ".", "b", " ", " ", "c", "!">>

Texts ==
    {Flatten(ps) : ps \in PieceSeqs(MaxPieces)}
        \cup {CatsText, LongText, DottedText}

Questions ==
    {<<>>, <<"t","h","e">>, <<"T","H","E"," ","a","b","?">>, <<"x","y","z">>}

\* the questions handed to the matcher: those of the popup, and two about
\* the four sentences
FnQuestions ==
    Questions \cup {<<"m","a","m","m","a","l","s">>,
                    <<"d","o","g","s"," ","m","a","m","m","a","l","s">>}

NoArgs == [maxBullets |-> 0, maxHighlights |-> 0, question |-> <<>>]

NoOut == [bullets |-> <<>>, highlights |-> <<>>, raw |-> <<>>, answer |-> <<>>,
          bgAnswer |-> <<>>, sents |-> <<>>]

(***************************************************************************)
(* The page, the model tiers and the requests of the background            *)
(* orchestrator (background.js) and of the popup (popup.js)                *)
(***************************************************************************)
\* String(extracted.text || '').slice(0, 200000)
TextLimit == 200000

\* popup.js keeps .slice(0,6) bullet lines and .slice(0,5) highlight lines
PopupBulletLimit == 6

HighlightLimit == 5

\* extractiveSummarize(text, 4, 4); summarizeText's default arguments
DefaultMaxBullets == 4

DefaultMaxHighlights == 4

\* how many pieces the text of the page is made of, at most
MaxPagePieces == 1

\* the longest list of bullet lines / highlight lines a model tier answers
MaxModelLines == 7

\* A page text is a run of `lead` whitespace characters followed by the
\* characters `rest`: the run is carried as its length, so that a text longer
\* than TextLimit can be written down.
\* a page of five sentences, more than the summarizer keeps
RichText ==
    <<"A","b"," ","c"," ","d"," ","e"," ","f"," ","g","."," ",
      "t","h","e"," ","b"," ","c"," ","d"," ","e"," ","f","."," ",
      "c","."," ","b","?"," ","\n","-","d">>

PageTexts ==
    {[lead |-> l, rest |-> body] :
        l \in {0, TextLimit},
        body \in {Flatten(ps) : ps \in PieceSeqs(MaxPagePieces)} \cup {RichText}}

\* String.prototype.slice(0, limit) on a page text
SliceText(t, limit) ==
    IF t.lead >= limit THEN [lead |-> limit, rest |-> <<>>]
    ELSE [lead |-> t.lead, rest |-> Take(t.rest, limit - t.lead)]

\* The characters of a page text as the summarizer and the matcher see them:
\* both collapse or trim every whitespace run before anything else, so the
\* leading run stands as one space.
Chars(t) == IF t.lead > 0 THEN <<" ">> \o t.rest ELSE t.rest

\* whether the text holds no character other than whitespace
IsBlank(t) == Trim(t.rest) = <<>>

LineItems == <<"a","b","c","d","e","f","g","h","i","j","k","l">>

\* a wire-format answer of a model tier with n bullet lines and n highlights
WireOf(n) ==
    FormatWire([i \in 1..n |-> <<LineItems[i]>>],
               [i \in 1..n |-> <<LineItems[i], ".">>])

\* what a model tier can return: nothing, free text, wire-format text
ModelOutputs ==
    {<<>>, <<"o","k">>} \cup {WireOf(n) : n \in 1..MaxModelLines}

Reqs == {"r1", "r2"}

NoResp == [status |-> "none", text |-> <<>>, answer |-> <<>>,
           source |-> "", message |-> <<>>]

TiersIdle == [onDevice |-> "idle", pageContext |-> "idle", extractive |-> "idle"]

\* extractPageText before it is called: the content script's reply and the
\* timer of the message promise, the flag `finished`, how and by what the
\* promise was settled, the in-page script, and the path the text came from
NoExt ==
    [reply |-> "none", timer |-> "none", finished |-> FALSE, settled |-> "no",
     by |-> "none", script |-> "idle", source |-> "none"]

IdleReq ==
    [pc |-> "idle", action |-> "", mock |-> FALSE, question |-> <<>>,
     ext |-> NoExt,
     text |-> [lead |-> 0, rest |-> <<>>], tiers |-> TiersIdle,
     extracted |-> [lead |-> 0, rest |-> <<>>],
     finalAnswer |-> <<>>, finalSource |-> "", err |-> "", resp |-> NoResp,
     responses |-> 0, returned |-> <<>>]

IdlePopup == [pc |-> "idle", action |-> "", question |-> <<>>]

NoPage == [summary |-> <<>>, highlights |-> <<>>, raw |-> <<>>, present |-> FALSE]

(***************************************************************************)
(* The page document (content_script.js works on document.body)            *)
(***************************************************************************)
\* span.className of the markers
MarkerClass == "rifcare-highlight"

\* document.createTextNode(t)
TextNode(t) ==
    [kind |-> "text", text |-> t, cls |-> "", kids |-> <<>>, latest |-> FALSE]

\* an element of the page with its child nodes
Element(cls, kids) ==
    [kind |-> "elem", text |-> <<>>, cls |-> cls, kids |-> kids, latest |-> FALSE]

\* the span built by highlightSentences around one sentence; `latest` is not
\* part of the page: it tells the markers of the latest injector run from
\* those of earlier runs and of the page itself
Marker(sentence) ==
    [kind |-> "elem", text |-> <<>>, cls |-> MarkerClass,
     kids |-> <<TextNode(sentence)>>, latest |-> TRUE]

NoSummary == [bullets |-> <<>>, highlights |-> <<>>, raw |-> <<>>]

NoCsResp == [status |-> "none", data |-> NoPage, answer |-> <<>>]

\* the content script before it has run: no banner, no storage traffic
NoBanner ==
    [get |-> "none", seen |-> FALSE, notes |-> <<>>, count |-> 0, changes |-> 0]

\* the content script's run for an extract_and_summarize / ask_question message
IdleCs ==
    [pc |-> "idle", action |-> "", mock |-> FALSE, question |-> <<>>,
     result |-> NoSummary, injected |-> <<>>, data |-> NoPage,
     answer |-> <<>>, list |-> <<>>, resp |-> NoCsResp, failure |-> "none"]

VARIABLES
    fnText,     \* the text a pure function is applied to
    fnCall,     \* which function has been applied ("none" before the call)
    fnArgs,     \* its other arguments
    fnOut,      \* what it returned
    pageText,   \* document.body.innerText of the tab
    store,      \* chrome.storage.local: mock flag, page record, QA history
    req,        \* the background handler's run for each request
    popup,      \* the popup's click handler run for each request
    histOp,     \* the history read-modify-write started by each request
    ui,         \* what the popup shows: summary area, status, answer area
    hlMsgs,     \* the highlight_sentences messages sent to the tab
    pageWrites, \* the page records handed to chrome.storage.local.set, not yet written
    doc,        \* document.body of the page the content script runs in
    cs,         \* the content script's run for an asynchronous message
    trail,      \* the last two operations on the document, each with the document before it
    banner      \* the mock-mode banner of the page and the storage traffic that drives it

fnVars == <<fnText, fnCall, fnArgs, fnOut>>

bgVars == <<pageText, store, req, popup, histOp, ui, hlMsgs, pageWrites>>

domVars == <<doc, cs, trail, banner>>

vars == <<fnText, fnCall, fnArgs, fnOut,
          pageText, store, req, popup, histOp, ui, hlMsgs, pageWrites,
          doc, cs, trail, banner>>

(***************************************************************************)
(* Initial values, and the parts of the extension a specification leaves   *)
(* alone                                                                   *)
(***************************************************************************)
NoHistOp == [pc |-> "none", entry |-> [question |-> <<>>, answer |-> <<>>,
                                       source |-> ""], list |-> <<>>]

IdleUi == [summaryKind |-> "placeholder", bullets |-> <<>>, status |-> "",
           answerKind |-> "empty", answer |-> <<>>, history |-> <<>>]

\* the state of the extension parts a specification leaves alone
BgQuiet ==
    /\ pageText = [lead |-> 0, rest |-> <<>>]
    /\ store = [mock |-> FALSE, page |-> NoPage, hist |-> <<>>]
    /\ req = [r \in Reqs |-> IdleReq]
    /\ popup = [r \in Reqs |-> IdlePopup]
    /\ histOp = [r \in Reqs |-> NoHistOp]
    /\ ui = IdleUi
    /\ hlMsgs = <<>>
    /\ pageWrites = <<>>

DomQuiet ==
    /\ doc = Element("", <<>>)
    /\ cs = IdleCs
    /\ trail = <<>>
    /\ banner = NoBanner

FnQuiet ==
    /\ fnText = <<>>
    /\ fnCall = "none"
    /\ fnArgs = NoArgs
    /\ fnOut = NoOut

(***************************************************************************)
(* The pure functions, applied to every text                               *)
(***************************************************************************)
\* the maxBullets / maxHighlights arguments tried: the small ones, and the
\* 4 both callers pass
ParamValues == (0..MaxParam) \cup {DefaultMaxBullets}

InitFn ==
    /\ fnText \in Texts
    /\ fnCall = "none"
    /\ fnArgs = NoArgs
    /\ fnOut = NoOut
    /\ BgQuiet
    /\ DomQuiet

\* summarizeText(fnText, maxBullets, maxHighlights)
CallSummarizeText ==
    /\ fnCall = "none"
    /\ \E mb \in ParamValues, mh \in ParamValues :
          LET r == SummarizeText(fnText, mb, mh)
          IN  /\ fnArgs' = [NoArgs EXCEPT !.maxBullets = mb, !.maxHighlights = mh]
              /\ fnOut' = [NoOut EXCEPT !.bullets = r.bullets,
                                        !.highlights = r.highlights,
                                        !.raw = r.raw]
    /\ fnCall' = "summarizeText"
    /\ UNCHANGED <<fnText, bgVars, domVars>>

\* extractiveSummarize(fnText, maxBullets, maxHighlights)
CallExtractiveSummarize ==
    /\ fnCall = "none"
    /\ \E mb \in ParamValues, mh \in ParamValues :
          LET r == ExtractiveSelection(fnText, mb, mh)
          IN  /\ fnArgs' = [NoArgs EXCEPT !.maxBullets = mb, !.maxHighlights = mh]
              /\ fnOut' = [NoOut EXCEPT !.bullets = r.bullets,
                                        !.highlights = r.highlights,
                                        !.raw = ExtractiveSummarize(fnText, mb, mh)]
    /\ fnCall' = "extractiveSummarize"
    /\ UNCHANGED <<fnText, bgVars, domVars>>

\* answerQuestion(fnText, question), and the extractive answer of the
\* background's ask handler for the same text and question; sents is the
\* array of sentences both build first
CallAnswerQuestion ==
    /\ fnCall = "none"
    /\ \E q \in FnQuestions :
          /\ fnArgs' = [NoArgs EXCEPT !.question = q]
          /\ fnOut' = [NoOut EXCEPT !.answer = AnswerQuestion(fnText, q),
                                    !.bgAnswer = BgExtractiveAnswer(fnText, q),
                                    !.sents = Segment(fnText)]
    /\ fnCall' = "answerQuestion"
    /\ UNCHANGED <<fnText, bgVars, domVars>>

NextFn ==
    \/ CallSummarizeText
    \/ CallExtractiveSummarize
    \/ CallAnswerQuestion

SpecFn == InitFn /\ [][NextFn]_vars

(***************************************************************************)
(* popup.js: the Summarize and Ask buttons                                 *)
(***************************************************************************)
\* the questions typed into the popup (askBtn ignores an empty one)
PopupQuestions == Questions \ {<<>>}

\* summarizeBtn / askBtn click: the progress text is shown and the handler
\* awaits chrome.tabs.query and then the stored mock flag
PopupClick(r) ==
    /\ popup[r].pc = "idle"
    /\ \E kind \in {"summarize", "ask"}, q \in PopupQuestions :
          /\ popup' = [popup EXCEPT ![r].pc = "starting", ![r].action = kind,
                                    ![r].question =
                                        IF kind = "ask" THEN q ELSE <<>>]
          /\ ui' = IF kind = "summarize"
                   THEN [ui EXCEPT !.summaryKind = "progress", !.bullets = <<>>,
                                   !.status = ""]
                   ELSE [ui EXCEPT !.answerKind = "progress", !.answer = <<>>]
    /\ UNCHANGED <<fnVars, domVars, pageText, store, req, histOp, hlMsgs, pageWrites>>

\* chrome.tabs.query found no tab: the handler shows it and returns
PopupNoTab(r) ==
    /\ popup[r].pc = "starting"
    /\ popup' = [popup EXCEPT ![r].pc = "done"]
    /\ ui' = IF popup[r].action = "summarize"
             THEN [ui EXCEPT !.summaryKind = "notab"]
             ELSE [ui EXCEPT !.answerKind = "notab"]
    /\ UNCHANGED <<fnVars, domVars, pageText, store, req, histOp, hlMsgs, pageWrites>>

\* the handler reads rifcare_mock_mode and sends {action, tabId, question, mock}
\* to the background, whose listener starts extractPageText(tabId)
PopupSend(r) ==
    /\ popup[r].pc = "starting"
    /\ req[r].pc = "idle"
    /\ req' = [req EXCEPT ![r] =
                  [IdleReq EXCEPT !.pc = "extract_msg",
                                  !.action = popup[r].action,
                                  !.mock = store.mock,
                                  !.question = popup[r].question]]
    /\ popup' = [popup EXCEPT ![r].pc = "waiting"]
    /\ UNCHANGED <<fnVars, domVars, pageText, store, histOp, ui, hlMsgs, pageWrites>>

(***************************************************************************)
(* background.js: the onMessage handler for summarize and ask              *)
(***************************************************************************)
OnDeviceErrors == {"chrome.ai not available in background", "generate rejected"}

PageContextErrors ==
    {"window.ai not available", "No result from injected script",
     "generate rejected"}

ExtractErrors == {"no result from page script", "page script error"}

MockAnswerPrefix ==
    <<"M","O","C","K"," ","A","N","S","W","E","R",":"," ","s","i","m","u",
      "l","a","t","e","d"," ","r","e","s","p","o","n","s","e"," ","t","o",
      " ","\"">>

\* `MOCK ANSWER: simulated response to "${question}"`
MockAnswer(question) == MockAnswerPrefix \o question \o <<"\"">>

\* sendResponse(resp): the handler's run ends with it
Respond(q, resp) ==
    [q EXCEPT !.resp = resp, !.responses = @ + 1, !.pc = "done"]

OkText(text, source) ==
    [NoResp EXCEPT !.status = "ok", !.text = text, !.source = source]

OkAnswer(answer, source) ==
    [NoResp EXCEPT !.status = "ok", !.answer = answer, !.source = source]

ErrorResp(parts) == [NoResp EXCEPT !.status = "error", !.message = parts]

\* a variant that starts both model tiers at once, not one after the other
AfterExtract_Speculative(q, extractedText) ==
    LET cut == [q EXCEPT !.extracted = extractedText,
                         !.text = SliceText(extractedText, TextLimit)]
    IN  IF q.action = "ask" /\ q.mock
        THEN [cut EXCEPT !.pc = "mock_tab"]
        ELSE [cut EXCEPT !.pc = "tier1", !.tiers.onDevice = "inflight",
                         !.tiers.pageContext = "inflight"]

\* after extractPageText resolved ok: the text is cut to TextLimit; a mock ask
\* goes on to chrome.tabs.get, every other request calls callChromeAI
AfterExtract(q, extractedText) ==
    LET cut == [q EXCEPT !.extracted = extractedText,
                         !.text = SliceText(extractedText, TextLimit)]
    IN  IF q.action = "ask" /\ q.mock
        THEN [cut EXCEPT !.pc = "mock_tab"]
        ELSE [cut EXCEPT !.pc = "tier1", !.tiers.onDevice = "inflight"]

\* a variant that takes an empty text for a failure and goes on to
\* callWindowAIInPage
OnDeviceReturned_EmptyFallsThrough(q, aiText) ==
    IF aiText = <<>>
    THEN [q EXCEPT !.tiers.onDevice = "returned",
                   !.tiers.pageContext = "inflight", !.pc = "tier2"]
    ELSE LET d == [q EXCEPT !.tiers.onDevice = "returned"]
         IN  IF q.action = "summarize"
             THEN Respond(d, OkText(aiText, "chrome.ai"))
             ELSE [d EXCEPT !.finalAnswer = aiText, !.finalSource = "chrome.ai",
                            !.pc = "persist_tab"]

\* callChromeAI returned aiText
OnDeviceReturned(q, aiText) ==
    LET d == [q EXCEPT !.tiers.onDevice = "returned"]
    IN  IF q.action = "summarize"
        THEN Respond(d, OkText(aiText, "chrome.ai"))
        ELSE [d EXCEPT !.finalAnswer = aiText, !.finalSource = "chrome.ai",
                       !.pc = "persist_tab"]

\* catch (e) of callChromeAI: callWindowAIInPage is called
OnDeviceThrew(q, e) ==
    [q EXCEPT !.tiers.onDevice = "threw", !.tiers.pageContext = "inflight",
              !.pc = "tier2"]

\* callWindowAIInPage returned aiText
PageContextReturned(q, aiText) ==
    LET d == [q EXCEPT !.tiers.pageContext = "returned"]
    IN  IF q.action = "summarize"
        THEN Respond(d, OkText(aiText, "window.ai"))
        ELSE [d EXCEPT !.finalAnswer = aiText, !.finalSource = "window.ai",
                       !.pc = "persist_tab"]

\* a variant without the extractive tier: the failure of both model tiers is
\* reported as it is
PageContextThrew_NoFallback(q, err2) ==
    Respond([q EXCEPT !.tiers.pageContext = "threw", !.err = err2],
            ErrorResp(<<"Gemini Nano not supported on this device or context: ",
                        err2>>))

\* catch (err2) of callWindowAIInPage: the extractive tier runs at once
PageContextThrew(q, err2) ==
    LET d == [q EXCEPT !.tiers.pageContext = "threw",
                       !.tiers.extractive = "returned", !.err = err2]
    IN  IF q.action = "summarize"
        THEN LET fallback == ExtractiveSummarize(Chars(q.text),
                                 DefaultMaxBullets, DefaultMaxHighlights)
             IN  IF fallback # <<>> /\ Trim(fallback) # <<>>
                 THEN Respond(d, OkText(fallback, "extractive-fallback"))
                 ELSE Respond(d, ErrorResp(
                          <<"Gemini Nano not supported on this device or context: ",
                            err2>>))
        ELSE [d EXCEPT !.finalAnswer = BgExtractiveAnswer(Chars(q.text), q.question),
                       !.finalSource = "extractive-fallback",
                       !.pc = "persist_tab"]

\* what the ask handler answers and files: the mock answer or finalAnswer
AskAnswer(q) == IF q.mock THEN MockAnswer(q.question) ELSE q.finalAnswer

AskSource(q) == IF q.mock THEN "mock" ELSE q.finalSource

\* chrome.tabs.sendMessage(tabId, {action:'extract_page'}) answered with the text
BgExtractMsgOk(r) ==
    /\ req[r].pc = "extract_msg"
    /\ req' = [req EXCEPT ![r] = AfterExtract(req[r], pageText)]
    /\ UNCHANGED <<fnVars, domVars, pageText, store, popup, histOp, ui, hlMsgs, pageWrites>>

\* the content script did not answer (lastError, exception or timeout):
\* chrome.scripting.executeScript is tried
BgExtractMsgFail(r) ==
    /\ req[r].pc = "extract_msg"
    /\ req' = [req EXCEPT ![r].pc = "extract_script"]
    /\ UNCHANGED <<fnVars, domVars, pageText, store, popup, histOp, ui, hlMsgs, pageWrites>>

\* the in-page script returned document.body.innerText
BgExtractScriptOk(r) ==
    /\ req[r].pc = "extract_script"
    /\ req' = [req EXCEPT ![r] = AfterExtract(req[r], pageText)]
    /\ UNCHANGED <<fnVars, domVars, pageText, store, popup, histOp, ui, hlMsgs, pageWrites>>

\* the in-page script failed too: !extracted.ok
BgExtractScriptFail(r) ==
    /\ req[r].pc = "extract_script"
    /\ \E e \in ExtractErrors :
          req' = [req EXCEPT ![r] =
                     Respond(req[r], ErrorResp(<<"Failed to extract page text: ", e>>))]
    /\ UNCHANGED <<fnVars, domVars, pageText, store, popup, histOp, ui, hlMsgs, pageWrites>>

(***************************************************************************)
(* background.js extractPageText: the message promise with its timer, and  *)
(* the in-page script                                                      *)
(***************************************************************************)
\* what the content script's reply can be: the text, a reply without text,
\* or chrome.runtime.lastError
ReplyOutcomes == {"text", "empty", "lastError"}

NoText == [lead |-> 0, rest |-> <<>>]

\* a variant in which resolve() acts on a promise that is settled already
SettleMessage_Again(q, outcome, by, text) ==
    IF outcome = "ok"
    THEN AfterExtract([q EXCEPT !.ext.settled = "ok", !.ext.by = by,
                                !.ext.source = "message"], text)
    ELSE [q EXCEPT !.ext.settled = "error", !.ext.by = by,
                   !.ext.script = "inflight", !.pc = "extract_script"]

\* resolve(...) of the message promise and what follows the await: nothing
\* when the promise is settled already; `if (resp && resp.ok) return resp`
\* and the handler goes on with the text; otherwise executeScript is called
SettleMessage(q, outcome, by, text) ==
    IF q.ext.settled # "no" THEN q
    ELSE IF outcome = "ok"
    THEN AfterExtract([q EXCEPT !.ext.settled = "ok", !.ext.by = by,
                                !.ext.source = "message"], text)
    ELSE [q EXCEPT !.ext.settled = "error", !.ext.by = by,
                   !.ext.script = "inflight", !.pc = "extract_script"]

\* the executor of the promise: chrome.tabs.sendMessage throws (finished,
\* resolve, return), or the callback is registered and the timer set
ExtSendMessage(r) ==
    /\ req[r].pc = "extract_msg"
    /\ req[r].ext.reply = "none"
    /\ req[r].ext.settled = "no"
    /\ \/ req' = [req EXCEPT ![r] =
                     SettleMessage([req[r] EXCEPT !.ext.finished = TRUE],
                                   "error", "throw", NoText)]
       \/ req' = [req EXCEPT ![r].ext.reply = "pending",
                             ![r].ext.timer = "armed"]
    /\ UNCHANGED <<fnVars, domVars, pageText, store, popup, histOp, ui, hlMsgs, pageWrites>>

\* the callback of sendMessage runs, before or after the timer
ExtReply(r) ==
    /\ req[r].ext.reply = "pending"
    /\ \E o \in ReplyOutcomes :
          LET q == [req[r] EXCEPT !.ext.reply = "delivered",
                                  !.ext.finished = TRUE]
          IN  req' = [req EXCEPT ![r] =
                         IF o = "lastError"
                         THEN SettleMessage(q, "error", "lastError", NoText)
                         ELSE SettleMessage(q, "ok", "reply",
                                  IF o = "text" THEN pageText ELSE NoText)]
    /\ UNCHANGED <<fnVars, domVars, pageText, store, popup, histOp, ui, hlMsgs, pageWrites>>

\* the timer fires after timeoutMs: if (!finished) resolve({ok:false, ...})
ExtTimer(r) ==
    /\ req[r].ext.timer = "armed"
    /\ LET q == [req[r] EXCEPT !.ext.timer = "fired"]
       IN  req' = [req EXCEPT ![r] =
                      IF req[r].ext.finished THEN q
                      ELSE SettleMessage(q, "error", "timer", NoText)]
    /\ UNCHANGED <<fnVars, domVars, pageText, store, popup, histOp, ui, hlMsgs, pageWrites>>

\* the in-page script returned document.body.innerText
ExtScriptOk(r) ==
    /\ req[r].pc = "extract_script"
    /\ req[r].ext.script = "inflight"
    /\ req' = [req EXCEPT ![r] =
                  AfterExtract([req[r] EXCEPT !.ext.script = "ok",
                                              !.ext.source = "script"],
                               pageText)]
    /\ UNCHANGED <<fnVars, domVars, pageText, store, popup, histOp, ui, hlMsgs, pageWrites>>

\* executeScript rejected, gave no result or an error: !extracted.ok
ExtScriptFail(r) ==
    /\ req[r].pc = "extract_script"
    /\ req[r].ext.script = "inflight"
    /\ \E e \in ExtractErrors :
          req' = [req EXCEPT ![r] =
                     Respond([req[r] EXCEPT !.ext.script = "failed"],
                             ErrorResp(<<"Failed to extract page text: ", e>>))]
    /\ UNCHANGED <<fnVars, domVars, pageText, store, popup, histOp, ui, hlMsgs, pageWrites>>

BgOnDeviceReturns(r) ==
    /\ req[r].pc = "tier1"
    /\ \E out \in ModelOutputs :
          req' = [req EXCEPT ![r] = OnDeviceReturned(req[r], out)]
    /\ UNCHANGED <<fnVars, domVars, pageText, store, popup, histOp, ui, hlMsgs, pageWrites>>

BgOnDeviceThrows(r) ==
    /\ req[r].pc = "tier1"
    /\ \E e \in OnDeviceErrors :
          req' = [req EXCEPT ![r] = OnDeviceThrew(req[r], e)]
    /\ UNCHANGED <<fnVars, domVars, pageText, store, popup, histOp, ui, hlMsgs, pageWrites>>

BgPageContextReturns(r) ==
    /\ req[r].pc = "tier2"
    /\ \E out \in ModelOutputs :
          req' = [req EXCEPT ![r] = PageContextReturned(req[r], out)]
    /\ UNCHANGED <<fnVars, domVars, pageText, store, popup, histOp, ui, hlMsgs, pageWrites>>

BgPageContextThrows(r) ==
    /\ req[r].pc = "tier2"
    /\ \E e \in PageContextErrors :
          req' = [req EXCEPT ![r] = PageContextThrew(req[r], e)]
    /\ UNCHANGED <<fnVars, domVars, pageText, store, popup, histOp, ui, hlMsgs, pageWrites>>

\* chrome.tabs.get resolved: chrome.storage.local.get([key], cb) is called
\* and, without waiting for it, sendResponse
BgTabInfoOk(r) ==
    /\ req[r].pc \in {"persist_tab", "mock_tab"}
    /\ histOp' = [histOp EXCEPT ![r] =
                     [NoHistOp EXCEPT !.pc = "get",
                                      !.entry = [question |-> req[r].question,
                                                 answer   |-> AskAnswer(req[r]),
                                                 source   |-> AskSource(req[r])]]]
    /\ req' = [req EXCEPT ![r] =
                  Respond(req[r], OkAnswer(AskAnswer(req[r]), AskSource(req[r])))]
    /\ UNCHANGED <<fnVars, domVars, pageText, store, popup, ui, hlMsgs, pageWrites>>

\* chrome.tabs.get rejected: the storage error is ignored
BgTabInfoFails(r) ==
    /\ req[r].pc \in {"persist_tab", "mock_tab"}
    /\ req' = [req EXCEPT ![r] =
                  Respond(req[r], OkAnswer(AskAnswer(req[r]), AskSource(req[r])))]
    /\ UNCHANGED <<fnVars, domVars, pageText, store, popup, histOp, ui, hlMsgs, pageWrites>>

\* the callback of storage.get: hist.push(entry), storage.set is called
HistGet(r) ==
    /\ histOp[r].pc = "get"
    /\ histOp' = [histOp EXCEPT ![r].pc = "set",
                                ![r].list = Append(store.hist, histOp[r].entry)]
    /\ UNCHANGED <<fnVars, domVars, pageText, store, req, popup, ui, hlMsgs, pageWrites>>

\* a variant of storage.set that adds the entry to what is stored by then
HistSet_Merge(r) ==
    /\ histOp[r].pc = "set"
    /\ store' = [store EXCEPT !.hist = Append(@, histOp[r].entry)]
    /\ histOp' = [histOp EXCEPT ![r].pc = "done"]
    /\ UNCHANGED <<fnVars, domVars, pageText, req, popup, ui, hlMsgs, pageWrites>>

\* storage.set writes the list under qa_history_<url>
HistSet(r) ==
    /\ histOp[r].pc = "set"
    /\ store' = [store EXCEPT !.hist = histOp[r].list]
    /\ histOp' = [histOp EXCEPT ![r].pc = "done"]
    /\ UNCHANGED <<fnVars, domVars, pageText, req, popup, ui, hlMsgs, pageWrites>>

(***************************************************************************)
(* popup.js: what the popup does with the response                         *)
(***************************************************************************)
RECURSIVE StripDashesAndSpaces(_)
\* l.replace(/^[-\s]*\-?\s*/, ''): the leading dashes and whitespace go
StripDashesAndSpaces(l) ==
    IF l # <<>> /\ (Head(l) = "-" \/ IsSpace(Head(l)))
    THEN StripDashesAndSpaces(Tail(l))
    ELSE l

\* the two parts of raw.split('===HIGHLIGHTS===')
WireParts(raw) ==
    LET parts == SplitStr(raw, HighlightsDelimiter)
    IN  [bulletsPart    |-> parts[1],
         highlightsPart |-> IF Len(parts) >= 2 THEN parts[2] ELSE <<>>]

\* split(/\n|\r/)
Lines(part) == SplitChar(part, {"\n", "\r"})

\* l.replace(/^[-\s]*\-?\s*/, '').trim()
PopupBulletOf(l) == Trim(StripDashesAndSpaces(l))

\* the bullet lines of the first part, the empty ones dropped
BulletLines(part) ==
    FilterNonEmpty([i \in 1..Len(Lines(part)) |-> PopupBulletOf(Lines(part)[i])])

\* the highlight lines of the second part, the empty ones dropped
HighlightLines(part) ==
    FilterNonEmpty([i \in 1..Len(Lines(part)) |-> Trim(Lines(part)[i])])

\* popup.js: bullets and highlights recovered from resp.text
PopupParse(raw) ==
    LET parts == WireParts(raw)
    IN  [bullets    |-> Take(BulletLines(parts.bulletsPart),
                             PopupBulletLimit),
         highlights |-> Take(HighlightLines(parts.highlightsPart),
                             HighlightLimit)]

\* content_script.js: l.replace(/^-\s*/, '').trim(), one leading dash and the
\* whitespace after it go
ContentBulletOf(l) ==
    Trim(IF l # <<>> /\ Head(l) = "-" THEN TrimStart(Tail(l)) ELSE l)

\* content_script.js: bullets and highlights recovered from bgResp.text
ContentParse(raw) ==
    LET parts == WireParts(raw)
        ls    == Lines(parts.bulletsPart)
    IN  [bullets    |-> FilterNonEmpty([i \in 1..Len(ls) |-> ContentBulletOf(ls[i])]),
         highlights |-> Take(HighlightLines(parts.highlightsPart),
                             HighlightLimit)]

\* setSummaryText(bullets.length ? bullets : [raw.slice(0,500)])
ShownBullets(bullets, raw) ==
    IF bullets # <<>> THEN bullets ELSE <<Take(raw, 500)>>

\* the summarize handler after sendMessageToBackground resolved
PopupSummarizeResponse(r) ==
    /\ popup[r].pc = "waiting"
    /\ popup[r].action = "summarize"
    /\ req[r].resp.status # "none"
    /\ popup' = [popup EXCEPT ![r].pc = "done"]
    /\ LET resp   == req[r].resp
           parsed == PopupParse(resp.text)
       IN  IF resp.status # "ok"
           THEN /\ ui' = [ui EXCEPT !.summaryKind = "error", !.bullets = <<>>,
                                    !.status = resp.source]
                /\ UNCHANGED <<hlMsgs, pageWrites>>
           ELSE /\ ui' = [ui EXCEPT !.summaryKind = "list",
                                    !.bullets = ShownBullets(parsed.bullets, resp.text),
                                    !.status = resp.source]
                /\ hlMsgs' = Append(hlMsgs, parsed.highlights)
                /\ pageWrites' = Append(pageWrites,
                                        [summary    |-> parsed.bullets,
                                         highlights |-> parsed.highlights,
                                         raw        |-> resp.text,
                                         present    |-> TRUE])
    /\ UNCHANGED <<fnVars, domVars, pageText, store, req, histOp>>

\* the ask handler after sendMessageToBackground resolved
PopupAskResponse(r) ==
    /\ popup[r].pc = "waiting"
    /\ popup[r].action = "ask"
    /\ req[r].resp.status # "none"
    /\ popup' = [popup EXCEPT ![r].pc = "done"]
    /\ LET resp       == req[r].resp
           answerText == IF resp.answer # <<>> THEN resp.answer ELSE resp.text
       IN  ui' = IF resp.status # "ok"
                 THEN [ui EXCEPT !.answerKind = "error", !.answer = <<>>]
                 ELSE IF answerText # <<>>
                 THEN [ui EXCEPT !.answerKind = "answer", !.answer = answerText]
                 ELSE [ui EXCEPT !.answerKind = "noanswer", !.answer = <<>>]
    /\ UNCHANGED <<fnVars, domVars, pageText, store, req, histOp, hlMsgs, pageWrites>>

\* chrome.storage.local.set({[tab.url]: data}) takes effect
StorePageWrite ==
    /\ pageWrites # <<>>
    /\ store' = [store EXCEPT !.page = Head(pageWrites)]
    /\ pageWrites' = Tail(pageWrites)
    /\ UNCHANGED <<fnVars, domVars, pageText, req, popup, histOp, ui, hlMsgs>>

(***************************************************************************)
(* One request at a time: popup and background orchestrator                *)
(***************************************************************************)
InitBg ==
    /\ FnQuiet
    /\ DomQuiet
    /\ pageText \in PageTexts
    /\ store \in {[mock |-> m, page |-> NoPage, hist |-> <<>>] : m \in BOOLEAN}
    /\ req = [r \in Reqs |-> IdleReq]
    /\ popup = [r \in Reqs |-> IdlePopup]
    /\ histOp = [r \in Reqs |-> NoHistOp]
    /\ ui = IdleUi
    /\ hlMsgs = <<>>
    /\ pageWrites = <<>>

RequestStep(r) ==
    \/ PopupClick(r)
    \/ PopupNoTab(r)
    \/ PopupSend(r)
    \/ BgExtractMsgOk(r)
    \/ BgExtractMsgFail(r)
    \/ BgExtractScriptOk(r)
    \/ BgExtractScriptFail(r)
    \/ BgOnDeviceReturns(r)
    \/ BgOnDeviceThrows(r)
    \/ BgPageContextReturns(r)
    \/ BgPageContextThrows(r)
    \/ BgTabInfoOk(r)
    \/ BgTabInfoFails(r)
    \/ HistGet(r)
    \/ HistSet(r)
    \/ PopupSummarizeResponse(r)
    \/ PopupAskResponse(r)

NextBg ==
    \/ RequestStep("r1")
    \/ StorePageWrite

Spec == InitBg /\ [][NextBg]_vars

\* what the handler of a request awaits comes to its end
BgSettles(r) ==
    \/ BgExtractMsgOk(r)
    \/ BgExtractMsgFail(r)
    \/ BgExtractScriptOk(r)
    \/ BgExtractScriptFail(r)
    \/ BgOnDeviceReturns(r)
    \/ BgOnDeviceThrows(r)
    \/ BgPageContextReturns(r)
    \/ BgPageContextThrows(r)
    \/ BgTabInfoOk(r)
    \/ BgTabInfoFails(r)

\* every call the handler awaits settles (no click has to come)
SpecFair == Spec /\ WF_vars(BgSettles("r1"))

(***************************************************************************)
(* background.js callChromeAI and callWindowAIInPage: the text taken from  *)
(* the response of model.generate                                          *)
(***************************************************************************)
\* the content arrays a response can hold: no part, a part without text, one
\* part, two parts, a part with a wire-format text
PartLists ==
    {<<>>, <<<<>>>>, <<<<"o","k">>>>, <<<<"o">>, <<"k">>>>, <<WireOf(2)>>}

\* the objects of a response that has neither candidates nor output, as
\* lists of key and value
UnknownObjects ==
    {<<>>, <<<< <<"d","o","n","e">>, <<"t","r","u","e">> >>>>}

\* what model.generate resolves with: candidates[0].content, a candidate
\* that is a string or an object without content array, output[0].content,
\* or another object
ModelResponses ==
    {[shape |-> s, parts |-> p, fields |-> <<>>] :
        s \in {"candidates", "output"}, p \in PartLists}
    \cup {[shape |-> s, parts |-> <<<<"o","k">>>>, fields |-> <<>>] :
            s \in {"candidateString", "candidateObject"}}
    \cup {[shape |-> "other", parts |-> <<>>, fields |-> f] :
            f \in UnknownObjects}

\* content.map(c => c.text || '').join('')
JoinParts(parts) == Join(parts, <<>>)

RECURSIVE JsonFields(_)
\* the members "key":value, separated by commas
JsonFields(fields) ==
    IF fields = <<>> THEN <<>>
    ELSE <<"\"">> \o fields[1][1] \o <<"\"", ":">> \o fields[1][2]
             \o (IF Len(fields) > 1 THEN <<",">> ELSE <<>>)
             \o JsonFields(Tail(fields))

\* JSON.stringify of an object
JsonStringify(fields) == <<"{">> \o JsonFields(fields) \o <<"}">>

\* JSON.stringify of a response with one candidate that has no content array
CandidateJson(resp) ==
    <<"{","\"","c","a","n","d","i","d","a","t","e","s","\"",":","[">>
        \o (IF resp.shape = "candidateString"
            THEN <<"\"">> \o JoinParts(resp.parts) \o <<"\"">>
            ELSE <<"{", "}">>)
        \o <<"]", "}">>

\* String(cand) of an object
ObjectString ==
    <<"[","o","b","j","e","c","t"," ","O","b","j","e","c","t","]">>

\* callChromeAI, lines 75-82: the text it returns for a response
ChromeAIText(resp) ==
    CASE resp.shape = "candidates"      -> JoinParts(resp.parts)
      [] resp.shape = "candidateString" -> JoinParts(resp.parts)
      [] resp.shape = "candidateObject" -> ObjectString
      [] resp.shape = "output"          -> JoinParts(resp.parts)
      [] OTHER                          -> JsonStringify(resp.fields)

\* callWindowAIInPage, lines 94-96 and 108: the text it returns for a
\* response; a candidate without content goes to JSON.stringify(res)
WindowAIText(resp) ==
    CASE resp.shape = "output"     -> JoinParts(resp.parts)
      [] resp.shape = "candidates" -> JoinParts(resp.parts)
      [] resp.shape \in {"candidateString", "candidateObject"}
                                   -> CandidateJson(resp)
      [] OTHER                     -> JsonStringify(resp.fields)

\* model.generate of chrome.ai resolved: callChromeAI returns its text
BgOnDeviceResponds(r) ==
    /\ req[r].pc = "tier1"
    /\ \E resp \in ModelResponses :
          req' = [req EXCEPT ![r] =
                     OnDeviceReturned([req[r] EXCEPT !.returned = ChromeAIText(resp)],
                                      ChromeAIText(resp))]
    /\ UNCHANGED <<fnVars, domVars, pageText, store, popup, histOp, ui, hlMsgs, pageWrites>>

\* model.generate of window.ai resolved in the page: callWindowAIInPage
\* returns its text
BgPageContextResponds(r) ==
    /\ req[r].pc = "tier2"
    /\ \E resp \in ModelResponses :
          req' = [req EXCEPT ![r] =
                     PageContextReturned([req[r] EXCEPT !.returned = WindowAIText(resp)],
                                         WindowAIText(resp))]
    /\ UNCHANGED <<fnVars, domVars, pageText, store, popup, histOp, ui, hlMsgs, pageWrites>>

TierStep(r) ==
    \/ PopupClick(r)
    \/ PopupNoTab(r)
    \/ PopupSend(r)
    \/ BgExtractMsgOk(r)
    \/ BgExtractMsgFail(r)
    \/ BgExtractScriptOk(r)
    \/ BgExtractScriptFail(r)
    \/ BgOnDeviceResponds(r)
    \/ BgOnDeviceThrows(r)
    \/ BgPageContextResponds(r)
    \/ BgPageContextThrows(r)
    \/ BgTabInfoOk(r)
    \/ BgTabInfoFails(r)
    \/ HistGet(r)
    \/ HistSet(r)
    \/ PopupSummarizeResponse(r)
    \/ PopupAskResponse(r)

NextTiers ==
    \/ TierStep("r1")
    \/ StorePageWrite

\* one request, with the responses of the model tiers
SpecTiers == InitBg /\ [][NextTiers]_vars

(***************************************************************************)
(* One request with the steps of extractPageText                           *)
(***************************************************************************)
\* a page without text and a page with text
ExtractPages == {NoText, [lead |-> 0, rest |-> RichText]}

InitExtract ==
    /\ FnQuiet
    /\ DomQuiet
    /\ pageText \in ExtractPages
    /\ store \in {[mock |-> m, page |-> NoPage, hist |-> <<>>] : m \in BOOLEAN}
    /\ req = [r \in Reqs |-> IdleReq]
    /\ popup = [r \in Reqs |-> IdlePopup]
    /\ histOp = [r \in Reqs |-> NoHistOp]
    /\ ui = IdleUi
    /\ hlMsgs = <<>>
    /\ pageWrites = <<>>

ExtractStep(r) ==
    \/ PopupClick(r)
    \/ PopupNoTab(r)
    \/ PopupSend(r)
    \/ ExtSendMessage(r)
    \/ ExtReply(r)
    \/ ExtTimer(r)
    \/ ExtScriptOk(r)
    \/ ExtScriptFail(r)
    \/ BgOnDeviceReturns(r)
    \/ BgOnDeviceThrows(r)
    \/ BgPageContextReturns(r)
    \/ BgPageContextThrows(r)
    \/ BgTabInfoOk(r)
    \/ BgTabInfoFails(r)
    \/ HistGet(r)
    \/ HistSet(r)
    \/ PopupSummarizeResponse(r)
    \/ PopupAskResponse(r)

NextExtract ==
    \/ ExtractStep("r1")
    \/ StorePageWrite

SpecExtract == InitExtract /\ [][NextExtract]_vars

(***************************************************************************)
(* Two ask requests at a time: the Ask button stays enabled while a        *)
(* request is pending, so a second click starts a second handler run       *)
(***************************************************************************)
\* the question of each of the two clicks
RaceQuestion(r) == IF r = "r1" THEN <<"t","h","e">> ELSE <<"x","y","z">>

RacePages == {[lead |-> 0, rest |-> body] : body \in {<<>>, RichText}}

\* both click handlers have shown the progress text and await chrome.tabs.query
InitRace ==
    /\ FnQuiet
    /\ DomQuiet
    /\ pageText \in RacePages
    /\ store \in {[mock |-> m, page |-> NoPage, hist |-> <<>>] : m \in BOOLEAN}
    /\ req = [r \in Reqs |-> IdleReq]
    /\ popup = [r \in Reqs |->
                   [pc |-> "starting", action |-> "ask",
                    question |-> RaceQuestion(r)]]
    /\ histOp = [r \in Reqs |-> NoHistOp]
    /\ ui = [IdleUi EXCEPT !.answerKind = "progress"]
    /\ hlMsgs = <<>>
    /\ pageWrites = <<>>

AskStep(r) ==
    \/ PopupNoTab(r)
    \/ PopupSend(r)
    \/ BgExtractMsgOk(r)
    \/ BgExtractMsgFail(r)
    \/ BgExtractScriptOk(r)
    \/ BgExtractScriptFail(r)
    \/ BgOnDeviceReturns(r)
    \/ BgOnDeviceThrows(r)
    \/ BgPageContextReturns(r)
    \/ BgPageContextThrows(r)
    \/ BgTabInfoOk(r)
    \/ BgTabInfoFails(r)
    \/ HistGet(r)
    \/ HistSet(r)
    \/ PopupAskResponse(r)

NextRace == \E r \in Reqs : AskStep(r)

SpecRace == InitRace /\ [][NextRace]_vars

(***************************************************************************)
(* content_script.js: the highlight injector and remover                   *)
(***************************************************************************)
IsMarker(n) == n.kind = "elem" /\ n.cls = MarkerClass

RECURSIVE TextContent(_)
\* Node.textContent: the text of the text nodes below n, in document order
TextContent(n) ==
    IF n.kind = "text" THEN n.text
    ELSE Flatten([i \in 1..Len(n.kids) |-> TextContent(n.kids[i])])

RECURSIVE MarkersIn(_)
\* querySelectorAll('.rifcare-highlight'): the markers at n and below it, in
\* document order
MarkersIn(n) ==
    IF n.kind = "text" THEN <<>>
    ELSE (IF IsMarker(n) THEN <<n>> ELSE <<>>)
             \o Flatten([i \in 1..Len(n.kids) |-> MarkersIn(n.kids[i])])

RECURSIVE MergeText(_)
\* adjacent text nodes become one, empty text nodes go
MergeText(kids) ==
    IF kids = <<>> THEN <<>>
    ELSE LET h == Head(kids)
             r == MergeText(Tail(kids))
         IN  IF h.kind # "text" THEN <<h>> \o r
             ELSE IF h.text = <<>> THEN r
             ELSE IF r # <<>> /\ Head(r).kind = "text"
                  THEN <<TextNode(h.text \o Head(r).text)>> \o Tail(r)
                  ELSE <<h>> \o r

RECURSIVE Normalize(_)
\* Node.normalize() on n: its whole subtree is normalized
Normalize(n) ==
    IF n.kind = "text" THEN n
    ELSE [n EXCEPT !.kids = MergeText([i \in 1..Len(n.kids) |-> Normalize(n.kids[i])])]

RECURSIVE UnwrapFirst_NoNormalize(_)
\* a variant of the loop's turn that leaves out parent.normalize()
UnwrapFirst_NoNormalize(n) ==
    LET i   == MinOf({j \in 1..Len(n.kids) : MarkersIn(n.kids[j]) # <<>>})
        kid == n.kids[i]
    IN  IF IsMarker(kid)
        THEN [n EXCEPT !.kids[i] = TextNode(TextContent(kid))]
        ELSE [n EXCEPT !.kids[i] = UnwrapFirst_NoNormalize(kid)]

RECURSIVE UnwrapFirst(_)
\* one turn of the loop of removeHighlights on the first marker below n (n
\* holds one): parent.replaceChild(createTextNode(el.textContent), el) and
\* parent.normalize()
UnwrapFirst(n) ==
    LET i   == MinOf({j \in 1..Len(n.kids) : MarkersIn(n.kids[j]) # <<>>})
        kid == n.kids[i]
    IN  IF IsMarker(kid)
        THEN Normalize([n EXCEPT !.kids[i] = TextNode(TextContent(kid))])
        ELSE [n EXCEPT !.kids[i] = UnwrapFirst(kid)]

\* a variant that unwraps the first marker only
RemoveHighlights_FirstOnly(body) ==
    IF MarkersIn(body) = <<>> THEN body ELSE UnwrapFirst(body)

RECURSIVE RemoveHighlights(_)
\* removeHighlights(): the markers are unwrapped in document order; a marker
\* inside a marker already unwrapped is no longer in the document
RemoveHighlights(body) ==
    IF MarkersIn(body) = <<>> THEN body
    ELSE RemoveHighlights(UnwrapFirst(body))

\* new Set(strings): the first occurrence of each, in order
Unique(ss) ==
    LET firsts == SelectSeq([i \in 1..Len(ss) |-> i],
                            LAMBDA i : \A j \in 1..(i - 1) : ss[j] # ss[i])
    IN  [k \in 1..Len(firsts) |-> ss[firsts[k]]]

\* a variant that iterates over the set from its last element to its first
SentenceSet_Reversed(sentences) ==
    LET set == Unique(FilterNonEmpty([i \in 1..Len(sentences) |-> Trim(sentences[i])]))
    IN  [k \in 1..Len(set) |-> set[Len(set) + 1 - k]]

\* new Set(sentences.map(s => s.trim()).filter(Boolean))
SentenceSet(sentences) ==
    Unique(FilterNonEmpty([i \in 1..Len(sentences) |-> Trim(sentences[i])]))

\* a variant that cuts the rest of the text one character too late
WrapSentence_LateCut(text, sentence) ==
    LET idx == IndexOf(text, sentence) - 1
    IN  <<TextNode(Take(text, idx)), Marker(sentence),
          TextNode(Drop(text, idx + Len(sentence) + 1))>>

\* the three nodes that take the place of a text node: before, span, after
WrapSentence(text, sentence) ==
    LET idx == IndexOf(text, sentence) - 1
    IN  <<TextNode(Take(text, idx)), Marker(sentence),
          TextNode(Drop(text, idx + Len(sentence)))>>

RECURSIVE InjectNode(_, _, _)
RECURSIVE InjectKids(_, _, _)
\* the loop of highlightSentences over the text nodes at n and below it, in
\* document order; w holds the sentences still in sentenceSet and the
\* counter highlights; the result holds the nodes that take the place of n
InjectNode(n, w, limit) ==
    IF n.kind = "text"
    THEN LET found == SelectSeq(w.set, LAMBDA s : IndexOf(n.text, s) # 0)
         IN  IF w.highlights >= limit \/ found = <<>>
             THEN [out |-> <<n>>, w |-> w]
             ELSE [out |-> WrapSentence(n.text, found[1]),
                   w   |-> [set        |-> SelectSeq(w.set, LAMBDA s : s # found[1]),
                            highlights |-> w.highlights + 1]]
    ELSE LET r == InjectKids(n.kids, w, limit)
         IN  [out |-> <<[n EXCEPT !.kids = r.out]>>, w |-> r.w]

InjectKids(kids, w, limit) ==
    IF kids = <<>> THEN [out |-> <<>>, w |-> w]
    ELSE LET h == InjectNode(Head(kids), w, limit)
             t == InjectKids(Tail(kids), h.w, limit)
         IN  [out |-> h.out \o t.out, w |-> t.w]

\* a variant that does not remove the markers of the last run first
HighlightSentences_NoReset(body, sentences) ==
    InjectNode(body, [set |-> SentenceSet(sentences), highlights |-> 0],
               Len(sentences)).out[1]

\* a variant whose loop ends one highlight before the length of the input
HighlightSentences_StopsOneShort(body, sentences) ==
    InjectNode(RemoveHighlights(body),
               [set |-> SentenceSet(sentences), highlights |-> 0],
               Len(sentences) - 1).out[1]

\* highlightSentences(sentences)
HighlightSentences(body, sentences) ==
    InjectNode(RemoveHighlights(body),
               [set |-> SentenceSet(sentences), highlights |-> 0],
               Len(sentences)).out[1]

RECURSIVE Aged(_)
\* the markers the page holds before an injector run are no longer the latest
Aged(n) ==
    IF n.kind = "text" THEN n
    ELSE [n EXCEPT !.latest = FALSE,
                   !.kids = [i \in 1..Len(n.kids) |-> Aged(n.kids[i])]]

\* getVisibleText() / extractPageText(): document.body.innerText; the
\* elements of the model's pages are inline and shown, so the text is the
\* text content with every whitespace run collapsed and the ends trimmed
GetVisibleText(body) == Trim(CollapseWs(TextContent(body)))

(***************************************************************************)
(* content_script.js: the message handlers                                 *)
(***************************************************************************)
ContentMockAnswerPrefix ==
    <<"M","O","C","K"," ","A","N","S","W","E","R",":"," ","I"," ","c","a",
      "n","'","t"," ","a","c","c","e","s","s"," ","G","e","m","i","n","i",
      " ","h","e","r","e",","," ","b","u","t"," ","t","h","i","s"," ","i",
      "s"," ","a"," ","s","i","m","u","l","a","t","e","d"," ","r","e","s",
      "p","o","n","s","e"," ","t","o",":"," ","\"">>

\* `MOCK ANSWER: I can't access Gemini here, but this is a simulated response to: "${message.question}"`
ContentMockAnswer(question) == ContentMockAnswerPrefix \o question \o <<"\"">>

\* the deterministic fake summary of the mock branch
FakeSummary ==
    [bullets |->
        <<<<"T","h","i","s"," ","p","a","g","e"," ","e","x","p","l","a","i","n",
            "s"," ","t","h","e"," ","m","a","i","n"," ","i","d","e","a"," ","i",
            "n"," ","3","-","5"," ","s","h","o","r","t"," ","p","o","i","n","t",
            "s",".">>,
          <<"I","m","p","o","r","t","a","n","t"," ","a","r","c","h","i","t","e",
            "c","t","u","r","e"," ","o","r"," ","w","o","r","k","f","l","o","w",
            " ","d","e","t","a","i","l","s"," ","a","r","e"," ","d","i","s","c",
            "u","s","s","e","d",".">>,
          <<"M","a","j","o","r"," ","b","e","n","e","f","i","t","s"," ","a","n",
            "d"," ","t","r","a","d","e","-","o","f","f","s"," ","a","r","e"," ",
            "h","i","g","h","l","i","g","h","t","e","d",".">>,
          <<"N","e","x","t"," ","s","t","e","p","s"," ","a","n","d"," ","c","o",
            "n","t","a","c","t"," ","i","n","f","o","r","m","a","t","i","o","n",
            " ","a","r","e"," ","p","r","o","v","i","d","e","d",".">>>>,
     highlights |->
        <<<<"T","h","i","s"," ","i","s"," ","a"," ","h","i","g","h","l","i","g",
            "h","t"," ","s","e","n","t","e","n","c","e"," ","o","n","e",".">>,
          <<"T","h","i","s"," ","i","s"," ","a"," ","h","i","g","h","l","i","g",
            "h","t"," ","s","e","n","t","e","n","c","e"," ","t","w","o",".">>,
          <<"T","h","i","s"," ","i","s"," ","a"," ","h","i","g","h","l","i","g",
            "h","t"," ","s","e","n","t","e","n","c","e"," ","t","h","r","e","e",
            ".">>>>,
     raw |-> <<"F","A","K","E","_","S","U","M","M","A","R","Y">>]

\* a variant that summarizes the page whatever message.mock says
SummarizeResult_Real(mock, text) ==
    SummarizeText(Take(text, TextLimit), DefaultMaxBullets, DefaultMaxHighlights)

\* result of the extract_and_summarize handler: the fake summary, or
\* summarizeText(text.slice(0, 200000))
SummarizeResult(mock, text) ==
    IF mock THEN FakeSummary
    ELSE SummarizeText(Take(text, TextLimit), DefaultMaxBullets, DefaultMaxHighlights)

\* answer of the ask_question handler: the mock template, or
\* answerQuestion(text.slice(0,200000), message.question).answer
AskResult(mock, text, question) ==
    IF mock THEN ContentMockAnswer(question)
    ELSE AnswerQuestion(Take(text, TextLimit), question)

\* {summary: result.bullets, highlights: result.highlights, raw: result.raw, updated}
PageData(result) ==
    [summary |-> result.bullets, highlights |-> result.highlights,
     raw |-> result.raw, present |-> TRUE]

\* {question, answer, at}: the entry pushed on the QA history (it names no source)
HistoryEntry(question, answer) ==
    [question |-> question, answer |-> answer, source |-> ""]

\* how many entries the QA history of the page is let grow to
MaxHistory == 1

\* the pages the content script runs in
PageFlat ==
    Element("", <<TextNode(<<"a","."," ">>),
                  Element("", <<TextNode(<<"b","."," ">>)>>),
                  TextNode(<<"c","."," ">>),
                  Element("", <<TextNode(<<"d","."," ">>)>>),
                  TextNode(<<"e","."," ">>),
                  Element("", <<TextNode(<<"f","."," ">>)>>),
                  TextNode(<<"g",".">>)>>)

\* two sentences in one text node, nested elements, adjacent text nodes and
\* an empty one
PageNested ==
    Element("", <<TextNode(<<"a","."," ","b","."," ">>),
                  Element("", <<Element("", <<TextNode(<<"c","."," ","d",".">>)>>),
                                TextNode(<<" ","e",".">>)>>),
                  TextNode(<<>>),
                  TextNode(<<" ","f","."," ">>),
                  TextNode(<<"g",".">>)>>)

\* a page that itself uses the class of the markers
PageMarked ==
    Element("", <<Element(MarkerClass,
                          <<TextNode(<<"a","."," ">>),
                            Element(MarkerClass, <<TextNode(<<"b","."," ">>)>>)>>),
                  TextNode(<<"c","."," ">>),
                  Element(MarkerClass, <<>>)>>)

\* long sentences, and the first highlight sentence of the fake summary
PageProse ==
    Element("", <<TextNode(<<"A","b"," ","c"," ","d"," ","e"," ","f"," ","g","."," ">>),
                  Element("", <<TextNode(<<"t","h","e"," ","b"," ","c"," ","d"," ",
                                           "e"," ","f","."," ">>)>>),
                  TextNode(FakeSummary.highlights[1] \o <<" ","c","."," ","b","?"," ","\n","-","d">>)>>)

Pages == {Element("", <<>>), PageFlat, PageNested, PageMarked, PageProse}

\* the arrays sent as message.sentences
SentenceLists ==
    {<<>>,
     <<<<"a",".">>, <<"b",".">>, <<"c",".">>, <<"d",".">>, <<"e",".">>,
       <<"f",".">>, <<"g",".">>>>,
     <<<<" ","b","."," ">>, <<>>, <<"b",".">>, <<"a",".">>>>,
     <<<<"x",".">>>>,
     <<<<"d",".">>, <<"c",".">>, <<"a","."," ","b",".">>>>}

\* the operation op on the document joins the trail, which keeps the last two
Trailed(tr, op, before) ==
    LET e == [op |-> op, before |-> before]
    IN  IF Len(tr) < 2 THEN Append(tr, e) ELSE <<tr[2], e>>

\* message {action:'highlight_sentences', sentences}
CsHighlightSentences ==
    /\ \E sentences \in SentenceLists :
          doc' = HighlightSentences(Aged(doc), Take(sentences, HighlightLimit))
    /\ trail' = Trailed(trail, "highlight_sentences", doc)
    /\ UNCHANGED <<fnVars, bgVars, cs, banner>>

\* message {action:'remove_highlights'}
CsRemoveHighlights ==
    /\ doc' = RemoveHighlights(doc)
    /\ trail' = Trailed(trail, "remove_highlights", doc)
    /\ UNCHANGED <<fnVars, bgVars, cs, banner>>

\* message {action:'extract_and_summarize', mock}: the handler runs up to its
\* call of chrome.storage.local.set
CsExtractAndSummarize ==
    /\ cs.pc \in {"idle", "done"}
    /\ \E mock \in BOOLEAN :
          LET result    == SummarizeResult(mock, GetVisibleText(doc))
              sentences == Take(result.highlights, HighlightLimit)
          IN  /\ doc' = HighlightSentences(Aged(doc), sentences)
              /\ cs' = [IdleCs EXCEPT !.pc = "store_set",
                                      !.action = "extract_and_summarize",
                                      !.mock = mock, !.result = result,
                                      !.injected = sentences,
                                      !.data = PageData(result)]
    /\ trail' = Trailed(trail, "extract_and_summarize", doc)
    /\ UNCHANGED <<fnVars, bgVars, banner>>

\* the callback of chrome.storage.local.set: the record is stored under the
\* URL of the page and sendResponse is called
CsStoreSet ==
    /\ cs.pc = "store_set"
    /\ store' = [store EXCEPT !.page = cs.data]
    /\ cs' = [cs EXCEPT !.pc = "done",
                        !.resp = [NoCsResp EXCEPT !.status = "ok", !.data = cs.data]]
    /\ UNCHANGED <<fnVars, pageText, req, popup, histOp, ui, hlMsgs, pageWrites,
                   doc, trail, banner>>

\* message {action:'ask_question', question, mock}: the handler runs up to its
\* call of chrome.storage.local.get
CsAskQuestion ==
    /\ cs.pc \in {"idle", "done"}
    /\ Len(store.hist) < MaxHistory
    /\ \E mock \in BOOLEAN, q \in Questions :
          cs' = [IdleCs EXCEPT !.pc = "hist_get", !.action = "ask_question",
                               !.mock = mock, !.question = q,
                               !.answer = AskResult(mock, GetVisibleText(doc), q)]
    /\ UNCHANGED <<fnVars, bgVars, doc, trail, banner>>

\* the callback of storage.get: hist.push(entry), storage.set is called and
\* then sendResponse
CsHistGet ==
    /\ cs.pc = "hist_get"
    /\ cs' = [cs EXCEPT !.pc = "hist_set",
                        !.list = Append(store.hist,
                                        HistoryEntry(cs.question, cs.answer)),
                        !.resp = [NoCsResp EXCEPT !.status = "ok",
                                                  !.answer = cs.answer]]
    /\ UNCHANGED <<fnVars, bgVars, doc, trail, banner>>

\* storage.set writes the list under qa_history_<url>
CsHistSet ==
    /\ cs.pc = "hist_set"
    /\ store' = [store EXCEPT !.hist = cs.list]
    /\ cs' = [cs EXCEPT !.pc = "done"]
    /\ UNCHANGED <<fnVars, pageText, req, popup, histOp, ui, hlMsgs, pageWrites,
                   doc, trail, banner>>

\* how a call of chrome.storage.local can fail: it throws, or its callback
\* is never invoked
StorageFailures == {"threw", "never completed"}

\* chrome.storage.local.set of extract_and_summarize fails: a throw is caught
\* by the handler's catch, which answers with the error; sendResponse is in
\* the callback, so without the callback there is no answer
CsStoreSetFails ==
    /\ cs.pc = "store_set"
    /\ \E f \in StorageFailures :
          cs' = [cs EXCEPT !.pc = IF f = "threw" THEN "done" ELSE "stalled",
                           !.failure = f,
                           !.resp = IF f = "threw"
                                    THEN [NoCsResp EXCEPT !.status = "error"]
                                    ELSE NoCsResp]
    /\ UNCHANGED <<fnVars, bgVars, doc, trail, banner>>

\* chrome.storage.local.get of ask_question fails: a throw is caught by the
\* handler's catch, which answers with the error; sendResponse is in the
\* callback, so without the callback there is no answer
CsHistGetFails ==
    /\ cs.pc = "hist_get"
    /\ \E f \in StorageFailures :
          cs' = [cs EXCEPT !.pc = IF f = "threw" THEN "done" ELSE "stalled",
                           !.failure = f,
                           !.resp = IF f = "threw"
                                    THEN [NoCsResp EXCEPT !.status = "error"]
                                    ELSE NoCsResp]
    /\ UNCHANGED <<fnVars, bgVars, doc, trail, banner>>

\* chrome.storage.local.set of ask_question fails: a throw leaves the
\* callback of storage.get before its sendResponse; a set that never
\* completes comes after it
CsHistSetFails ==
    \/ /\ cs.pc = "hist_get"
       /\ cs' = [cs EXCEPT !.pc = "stalled", !.failure = "threw",
                           !.list = Append(store.hist,
                                           HistoryEntry(cs.question, cs.answer))]
       /\ UNCHANGED <<fnVars, bgVars, doc, trail, banner>>
    \/ /\ cs.pc = "hist_set"
       /\ cs' = [cs EXCEPT !.pc = "done", !.failure = "never completed"]
       /\ UNCHANGED <<fnVars, bgVars, doc, trail, banner>>

(***************************************************************************)
(* The document under the messages that change it                          *)
(***************************************************************************)
InitDom ==
    /\ FnQuiet
    /\ BgQuiet
    /\ doc \in Pages
    /\ cs = IdleCs
    /\ trail = <<>>
    /\ banner = NoBanner

NextDom ==
    \/ CsHighlightSentences
    \/ CsRemoveHighlights
    \/ CsExtractAndSummarize
    \/ CsStoreSet

SpecDom == InitDom /\ [][NextDom]_vars

(***************************************************************************)
(* The content script's summaries and answers, with their storage          *)
(***************************************************************************)
InitCs ==
    /\ FnQuiet
    /\ BgQuiet
    /\ doc \in {Element("", <<>>), PageMarked, PageProse}
    /\ cs = IdleCs
    /\ trail = <<>>
    /\ banner = NoBanner

NextCs ==
    \/ CsExtractAndSummarize
    \/ CsStoreSet
    \/ CsAskQuestion
    \/ CsHistGet
    \/ CsHistSet

SpecCs == InitCs /\ [][NextCs]_vars

(***************************************************************************)
(* The content script's handlers when chrome.storage.local fails           *)
(***************************************************************************)
NextStore ==
    \/ NextCs
    \/ CsStoreSetFails
    \/ CsHistGetFails
    \/ CsHistSetFails

SpecStore == InitCs /\ [][NextStore]_vars

\* a storage call of the handler comes to its end: its callback runs, it
\* throws, or it is left without callback
CsStorageSettles ==
    \/ CsStoreSet
    \/ CsHistGet
    \/ CsHistSet
    \/ CsStoreSetFails
    \/ CsHistGetFails
    \/ CsHistSetFails

\* the event loop runs every callback that is due: the end of a storage call
\* is not put off for ever (no message has to arrive)
SpecStoreFair == SpecStore /\ WF_vars(CsStorageSettles)

(***************************************************************************)
(* content_script.js: the mock-mode banner                                 *)
(***************************************************************************)
MaxToggles == 4

\* createMockBanner(): nothing is added when an element with the id exists
CreateMockBanner(count) == IF count > 0 THEN count ELSE count + 1

\* removeMockBanner(): the element found by the id is removed
RemoveMockBanner(count) == IF count > 0 THEN count - 1 ELSE count

\* the content script has run in the page: chrome.storage.local.get is called
\* and the onChanged listener is registered
InitBanner ==
    /\ FnQuiet
    /\ pageText = [lead |-> 0, rest |-> <<>>]
    /\ store \in {[mock |-> m, page |-> NoPage, hist |-> <<>>] : m \in BOOLEAN}
    /\ req = [r \in Reqs |-> IdleReq]
    /\ popup = [r \in Reqs |-> IdlePopup]
    /\ histOp = [r \in Reqs |-> NoHistOp]
    /\ ui = IdleUi
    /\ hlMsgs = <<>>
    /\ pageWrites = <<>>
    /\ doc = Element("", <<>>)
    /\ cs = IdleCs
    /\ trail = <<>>
    /\ banner = [NoBanner EXCEPT !.get = "issued"]

\* the store serves the get: the value of the flag at that moment is the
\* result the callback will be given
StorageReadsFlag ==
    /\ banner.get = "issued"
    /\ banner' = [banner EXCEPT !.get = "read", !.seen = store.mock]
    /\ UNCHANGED <<fnVars, bgVars, doc, cs, trail>>

\* the callback of the get: if (res && res.rifcare_mock_mode) createMockBanner()
BannerGetCallback ==
    /\ banner.get = "read"
    /\ banner' = [banner EXCEPT !.get = "done",
                                !.count = IF banner.seen
                                          THEN CreateMockBanner(@) ELSE @]
    /\ UNCHANGED <<fnVars, bgVars, doc, cs, trail>>

\* the popup's mock toggle changes: the flag is stored and every onChanged
\* listener is owed a notification with the new value
MockToggleChange ==
    /\ banner.changes < MaxToggles
    /\ store' = [store EXCEPT !.mock = ~store.mock]
    /\ banner' = [banner EXCEPT !.notes = Append(@, ~store.mock),
                                !.changes = @ + 1]
    /\ UNCHANGED <<fnVars, pageText, req, popup, histOp, ui, hlMsgs, pageWrites,
                   doc, cs, trail>>

\* the onChanged listener is called with the oldest notification not yet
\* delivered
BannerOnChanged ==
    /\ banner.notes # <<>>
    /\ banner' = [banner EXCEPT !.notes = Tail(@),
                                !.count = IF Head(banner.notes)
                                          THEN CreateMockBanner(@)
                                          ELSE RemoveMockBanner(@)]
    /\ UNCHANGED <<fnVars, bgVars, doc, cs, trail>>

NextBanner ==
    \/ StorageReadsFlag
    \/ BannerGetCallback
    \/ MockToggleChange
    \/ BannerOnChanged

SpecBanner == InitBanner /\ [][NextBanner]_vars

(***************************************************************************)
(* content_script.js: single runs of highlightSentences                    *)
(***************************************************************************)
MaxRuns == 2

\* the arrays handed to highlightSentences: those of the messages, and one
\* with a sentence in the wrong case ahead of two that share a text node
InjectLists ==
    SentenceLists \cup {<<<<"A",".">>, <<"b",".">>, <<"a",".">>>>}

InitInject ==
    /\ FnQuiet
    /\ BgQuiet
    /\ doc \in Pages
    /\ cs = IdleCs
    /\ trail = <<>>
    /\ banner = NoBanner

\* highlightSentences(sentences.slice(0,5)), the argument kept in cs.injected
\* and the document before the run in the trail
RunHighlightSentences ==
    /\ Len(trail) < MaxRuns
    /\ \E sentences \in InjectLists :
          /\ doc' = HighlightSentences(Aged(doc), Take(sentences, HighlightLimit))
          /\ cs' = [IdleCs EXCEPT !.action = "highlight_sentences",
                                  !.injected = Take(sentences, HighlightLimit)]
    /\ trail' = Append(trail, [op |-> "highlight_sentences", before |-> doc])
    /\ UNCHANGED <<fnVars, bgVars, banner>>

NextInject == RunHighlightSentences

SpecInject == InitInject /\ [][NextInject]_vars

(***************************************************************************)
(* Properties of the orchestrator and the popup                            *)
(***************************************************************************)
TierNames == {"onDevice", "pageContext", "extractive"}

SourceOf == [onDevice |-> "chrome.ai", pageContext |-> "window.ai",
             extractive |-> "extractive-fallback"]

BothModelTiersFailed(q) ==
    /\ q.tiers.onDevice = "threw"
    /\ q.tiers.pageContext = "threw"

\* the text or the answer of a response, whichever the action returns
Payload(q) == IF q.action = "summarize" THEN q.resp.text ELSE q.resp.answer

\* C1: the tiers of a request are attempted in the order on-device,
\* page-context, extractive: page-context is started only once on-device has
\* thrown, the extractive tier only once page-context has thrown, never two
\* tiers are in flight together, and the source of an ok response names the
\* one tier that returned.
C1_TiersInOrder ==
    \A r \in Reqs :
        LET q == req[r]
        IN  /\ q.tiers.pageContext # "idle" => q.tiers.onDevice = "threw"
            /\ q.tiers.extractive # "idle" => q.tiers.pageContext = "threw"
            /\ Cardinality({t \in TierNames : q.tiers[t] = "inflight"}) <= 1
            /\ (q.resp.status = "ok" /\ q.resp.source # "mock") =>
                  \E t \in TierNames :
                      /\ q.tiers[t] = "returned"
                      /\ q.resp.source = SourceOf[t]
                      /\ \A u \in TierNames \ {t} : q.tiers[u] # "returned"

\* a request answered by the extractive tier after both model tiers threw,
\* and one answered by the page-context tier
C1_Witness ==
    \E r \in Reqs :
        /\ BothModelTiersFailed(req[r])
        /\ req[r].resp.status = "ok"
        /\ req[r].resp.source = "extractive-fallback"
        /\ req[r].action = "ask"

\* C2 as stated: when both model tiers fail and the extracted page text is
\* not blank, the request is answered with status ok, source
\* extractive-fallback and a non-empty text / answer.
C2_ExtractedNotBlank ==
    \A r \in Reqs :
        LET q == req[r]
        IN  (q.pc = "done" /\ BothModelTiersFailed(q) /\ ~IsBlank(q.extracted)) =>
                /\ q.resp.status = "ok"
                /\ q.resp.source = "extractive-fallback"
                /\ Payload(q) # <<>>

\* C2 amended: when both model tiers fail and the extracted page text, cut to
\* its first TextLimit characters, is not blank, the request is answered with
\* status ok, source extractive-fallback and a non-empty text / answer.
C2_CutTextNotBlank ==
    \A r \in Reqs :
        LET q == req[r]
        IN  (q.pc = "done" /\ BothModelTiersFailed(q) /\ ~IsBlank(q.text)) =>
                /\ q.resp.status = "ok"
                /\ q.resp.source = "extractive-fallback"
                /\ Payload(q) # <<>>

\* a summarize request on a non-blank text answered by the extractive tier
C2_Witness ==
    \E r \in Reqs :
        /\ req[r].pc = "done"
        /\ req[r].action = "summarize"
        /\ BothModelTiersFailed(req[r])
        /\ ~IsBlank(req[r].text)
        /\ req[r].resp.source = "extractive-fallback"
        /\ req[r].resp.text # <<>>

\* C3: a request sent with mock = true invokes none of the three tiers and
\* is answered with the mock payload, whatever the page and whatever the
\* outcome of the extraction.
C3_MockBypassesTiers ==
    \A r \in Reqs :
        req[r].mock =>
            /\ req[r].tiers = TiersIdle
            /\ req[r].resp.status # "none" =>
                  /\ req[r].resp.status = "ok"
                  /\ req[r].resp.source = "mock"

\* C9: every summary displayed, sent for highlighting or stored has at most
\* 4 bullets and at most 5 highlights.
C9_ResultBounds ==
    /\ ui.summaryKind = "list" => Len(ui.bullets) <= DefaultMaxBullets
    /\ \A i \in 1..Len(hlMsgs) : Len(hlMsgs[i]) <= HighlightLimit
    /\ \A i \in 1..Len(pageWrites) :
          /\ Len(pageWrites[i].summary) <= DefaultMaxBullets
          /\ Len(pageWrites[i].highlights) <= HighlightLimit
    /\ Len(store.page.summary) <= DefaultMaxBullets
    /\ Len(store.page.highlights) <= HighlightLimit

\* C10 on the background path: the extractive answer to a page text without
\* sentences is exactly "No content to answer from."
C10_SentinelOnEmptyText ==
    \A r \in Reqs :
        LET q == req[r]
        IN  (/\ q.action = "ask"
             /\ q.tiers.extractive = "returned"
             /\ q.resp.status = "ok"
             /\ Segment(Chars(q.text)) = <<>>) =>
                q.resp.answer = NoContentSentinel

(***************************************************************************)
(* Properties of the pure functions                                        *)
(***************************************************************************)
\* C8: the extractive summarizer (summarizeText and extractiveSummarize)
\* returns at most maxBullets bullets and at most maxHighlights highlights,
\* padding included.
C8_Ceilings ==
    fnCall \in {"summarizeText", "extractiveSummarize"} =>
        /\ Len(fnOut.bullets) <= fnArgs.maxBullets
        /\ Len(fnOut.highlights) <= fnArgs.maxHighlights

\* more sentences than maxBullets and more bullets than maxHighlights: the
\* highlights were padded with bullets up to the ceiling, and no further
C8_Witness ==
    /\ fnCall = "extractiveSummarize"
    /\ Len(Segment(fnText)) > fnArgs.maxBullets
    /\ Len(fnOut.bullets) = fnArgs.maxBullets
    /\ fnArgs.maxBullets > fnArgs.maxHighlights
    /\ fnArgs.maxHighlights > 0
    /\ Len(fnOut.highlights) = fnArgs.maxHighlights
    /\ fnOut.highlights[Len(fnOut.highlights)] = fnOut.bullets[Len(fnOut.highlights)]

\* the tokens of every sentence, one list for all the sentences
AllWords(sents) == Flatten([j \in 1..Len(sents) |-> Words(sents[j])])

\* the sum, over the tokens of the sentence that are no stop words, of the
\* number of times the token occurs in the list `all`
ScoreIn(sentence, all) ==
    LET ws  == Words(sentence)
        own == {k \in 1..Len(ws) : ws[k] \notin StopWords}
    IN  Cardinality({<<k, m>> \in own \X (1..Len(all)) : all[m] = ws[k]})

\* the score of sentence i among the sentences
ScoreByFrequency(sents, i) == ScoreIn(sents[i], AllWords(sents))

RECURSIVE ScoresIn(_, _)
\* the scores of the sentences, one after the other
ScoresIn(sents, all) ==
    IF sents = <<>> THEN <<>>
    ELSE <<ScoreIn(Head(sents), all)>> \o ScoresIn(Tail(sents), all)

\* the first maxBullets sentences by their place in the list sorted by score
\* descending, ties in original order
RankedBullets(text, maxBullets) ==
    LET sents == Segment(text)
        score == ScoresIn(sents, AllWords(sents))
        Rank(i) ==
            1 + Cardinality({j \in 1..Len(sents) :
                    \/ score[j] > score[i]
                    \/ score[j] = score[i] /\ j < i})
    IN  [k \in 1..Min(maxBullets, Len(sents)) |->
            sents[CHOOSE i \in 1..Len(sents) : Rank(i) = k]]

CatsSentence ==
    <<"C","a","t","s"," ","a","r","e"," ","m","a","m","m","a","l","s",".">>

DogsSentence ==
    <<"D","o","g","s"," ","a","r","e"," ","m","a","m","m","a","l","s"," ",
      "t","o","o",".">>

\* the bullets of every call are the first maxBullets sentences by place
BulletsAreRanked ==
    fnCall \in {"summarizeText", "extractiveSummarize"} =>
        fnOut.bullets = RankedBullets(fnText, fnArgs.maxBullets)

InjectorOps == {"highlight_sentences", "extract_and_summarize"}

FakePage == PageData(FakeSummary)

\* C4: a mock request to the content script is answered with the fixed
\* payload whatever the page, and goes through the steps of a real one: the
\* fake highlights are the sentences handed to the injector, the fake summary
\* is the record stored under the URL and returned, the mock answer is the
\* last entry of the QA history once the history is written.
C4_MockPayloadFixed ==
    cs.mock =>
        /\ cs.action = "extract_and_summarize" =>
              /\ cs.result = FakeSummary
              /\ cs.injected = FakeSummary.highlights
              /\ cs.data = FakePage
              /\ cs.pc = "done" =>
                    /\ cs.resp.status = "ok"
                    /\ cs.resp.data = FakePage
                    /\ store.page = FakePage
        /\ cs.action = "ask_question" =>
              /\ cs.answer = ContentMockAnswer(cs.question)
              /\ cs.pc \in {"hist_set", "done"} =>
                    /\ cs.resp.status = "ok"
                    /\ cs.resp.answer = ContentMockAnswer(cs.question)
              /\ cs.pc = "done" =>
                    /\ store.hist # <<>>
                    /\ store.hist[Len(store.hist)] =
                           HistoryEntry(cs.question, ContentMockAnswer(cs.question))

\* a mock summary answered and stored on a page that holds the first fake
\* highlight sentence: the injector has wrapped it
C4_Witness ==
    /\ cs.mock
    /\ cs.action = "extract_and_summarize"
    /\ cs.pc = "done"
    /\ store.page = FakePage
    /\ trail[Len(trail)].op = "extract_and_summarize"
    /\ GetVisibleText(trail[Len(trail)].before) # <<>>
    /\ \E i \in 1..Len(MarkersIn(doc)) :
          TextContent(MarkersIn(doc)[i]) = FakeSummary.highlights[1]

\* C5: the remover run right after the injector leaves the text content of
\* the document as it was before the injector ran.
C5_RoundTripText ==
    (/\ Len(trail) = 2
     /\ trail[1].op \in InjectorOps
     /\ trail[2].op = "remove_highlights") =>
        TextContent(doc) = TextContent(trail[1].before)

\* the injector wrapped at least two sentences, in the middle of a text node
\* among them, and the remover unwrapped them
C5_Witness ==
    /\ Len(trail) = 2
    /\ trail[1].op = "highlight_sentences"
    /\ trail[2].op = "remove_highlights"
    /\ Len(MarkersIn(trail[2].before)) >= 2
    /\ MarkersIn(trail[1].before) = <<>>
    /\ trail[2].before # trail[1].before
    /\ MarkersIn(doc) = <<>>
    /\ doc # trail[1].before

\* C6: the remover run a second time in a row leaves the document, node
\* structure and text, as the first run left it.
C6_RemoverIdempotent ==
    (/\ Len(trail) = 2
     /\ trail[1].op = "remove_highlights"
     /\ trail[2].op = "remove_highlights") =>
        doc = trail[2].before

\* two runs of the remover in a row, the first on a document with markers
C6_Witness ==
    /\ Len(trail) = 2
    /\ trail[1].op = "remove_highlights"
    /\ trail[2].op = "remove_highlights"
    /\ Len(MarkersIn(trail[1].before)) >= 2
    /\ doc = trail[2].before

\* C7: once a highlight_sentences, remove_highlights or
\* extract_and_summarize message has been handled, no marker holds another
\* marker, the document holds at most 5 markers, and every marker is one of
\* the latest injector run.
C7_MarkersFlatFewLatest ==
    trail # <<>> =>
        LET ms == MarkersIn(doc)
        IN  /\ Len(ms) <= HighlightLimit
            /\ \A i \in 1..Len(ms) :
                  /\ ms[i].latest
                  /\ MarkersIn(ms[i]) = <<ms[i]>>

\* an injector run asked for seven sentences on a page already marked by an
\* earlier run: five markers, all of this run
C7_Witness ==
    /\ Len(trail) = 2
    /\ trail[1].op \in InjectorOps
    /\ trail[2].op = "highlight_sentences"
    /\ MarkersIn(trail[2].before) # <<>>
    /\ Len(MarkersIn(doc)) = HighlightLimit

(***************************************************************************)
(* Properties of the question history                                      *)
(***************************************************************************)
\* both requests read the stored history before either wrote it, and both
\* have written
BothReadBeforeWrite ==
    \A r \in Reqs : histOp[r].pc = "done" /\ Len(histOp[r].list) = 1

\* C12: when two ask requests both read the stored history before either
\* writes it, both are answered with status ok and the stored history ends
\* up holding one of the two new entries only.
C12_LostUpdate ==
    BothReadBeforeWrite =>
        /\ \A r \in Reqs : req[r].resp.status = "ok"
        /\ Len(store.hist) = 1
        /\ \E r \in Reqs : store.hist = <<histOp[r].entry>>

\* two ask requests with different entries interleaved that way
C12_Witness ==
    /\ BothReadBeforeWrite
    /\ histOp["r1"].entry # histOp["r2"].entry
    /\ \A r \in Reqs : req[r].resp.status = "ok" /\ req[r].action = "ask"
    /\ store.hist = <<histOp["r1"].entry>>

\* C13: every write of the history stores the previously stored sequence
\* extended by exactly one entry at the end.
C13_AppendOnly ==
    [][store'.hist # store.hist =>
          /\ Len(store'.hist) = Len(store.hist) + 1
          /\ Take(store'.hist, Len(store.hist)) = store.hist]_vars

(***************************************************************************)
(* Properties of the handlers when the store fails                         *)
(***************************************************************************)
\* C14: a request of the content script whose storage read or write failed
\* is answered all the same, with status ok.
C14_StorageFailureHarmless ==
    cs.failure # "none" => cs.resp.status = "ok"

(***************************************************************************)
(* Properties of the orchestrator's error responses                        *)
(***************************************************************************)
\* the request ended with an error response after its page text was extracted
ErrorAfterExtraction(q) ==
    /\ q.resp.status = "error"
    /\ q.tiers.onDevice # "idle"

\* C15: a request whose page text was extracted ends with an error response
\* only if all three tiers failed to produce a result; the error response
\* identifies the last tier tried, the extractive one, and carries that
\* tier's failure message, not the message of an earlier tier; a failure of
\* the on-device tier only starts the page-context tier and a failure of the
\* page-context tier only starts the extractive tier.
C15_ErrorFromLastTier ==
    LET q == req["r1"]
    IN  /\ ErrorAfterExtraction(q) =>
              /\ BothModelTiersFailed(q)
              /\ q.tiers.extractive # "idle"
              /\ q.resp.source = SourceOf.extractive
              /\ \A i \in 1..Len(q.resp.message) :
                    q.resp.message[i] \notin OnDeviceErrors \cup PageContextErrors
        /\ q.tiers.onDevice = "threw" => q.tiers.pageContext # "idle"
        /\ q.tiers.pageContext = "threw" => q.tiers.extractive # "idle"

\* C16: when both model tiers failed and the extracted page text is empty or
\* blank, the request, summarize or ask, ends with status ok and the
\* extractive tier's result, tagged extractive-fallback.
C16_BlankTextEndsInFallback ==
    LET q == req["r1"]
    IN  (/\ q.pc = "done"
         /\ BothModelTiersFailed(q)
         /\ IsBlank(q.extracted)) =>
            /\ q.tiers.extractive = "returned"
            /\ q.resp.status = "ok"
            /\ q.resp.source = SourceOf.extractive

(***************************************************************************)
(* Properties of the wire format                                           *)
(***************************************************************************)
\* C17: the popup's parser and the content script's parser, applied to the
\* wire string of the extractive summarizer, recover the bullets and the
\* highlights the summarizer selected, in order and character for character.
C17_WireRoundTrip ==
    fnCall = "extractiveSummarize" =>
        /\ PopupParse(fnOut.raw).bullets = fnOut.bullets
        /\ PopupParse(fnOut.raw).highlights = fnOut.highlights
        /\ ContentParse(fnOut.raw).bullets = fnOut.bullets
        /\ ContentParse(fnOut.raw).highlights = fnOut.highlights

(***************************************************************************)
(* Properties of the mock-mode banner                                      *)
(***************************************************************************)
\* the callback of the initial get and every change notification were delivered
BannerQuiescent ==
    /\ banner.get = "done"
    /\ banner.notes = <<>>

\* C18: once the callback of the initial read and every change notification
\* have been delivered, the banner is in the page if and only if the stored
\* flag is true; the page never holds more than one banner.
C18_BannerFollowsFlag ==
    /\ BannerQuiescent => (banner.count = 1 <=> store.mock)
    /\ banner.count <= 1

(***************************************************************************)
(* Properties of a run of the injector                                     *)
(***************************************************************************)
\* highlightSentences has run; its argument and the document it found,
\* cleaned of markers as the run starts by doing
InjectorRan == cs.action = "highlight_sentences" /\ trail # <<>>

RunInput == cs.injected

RunBody == RemoveHighlights(Aged(trail[Len(trail)].before))

\* the distinct trimmed non-empty sentences of the input, in input order
Worklist(sentences) ==
    LET keep == {i \in 1..Len(sentences) :
                    /\ Trim(sentences[i]) # <<>>
                    /\ \A j \in 1..(i - 1) : Trim(sentences[j]) # Trim(sentences[i])}
        idx  == SelectSeq([i \in 1..Len(sentences) |-> i], LAMBDA i : i \in keep)
    IN  [k \in 1..Len(idx) |-> Trim(sentences[idx[k]])]

\* the input names a sentence twice, or holds a blank entry
HasDuplicates(sentences) == Len(Worklist(sentences)) < Len(sentences)

\* the loop with the counter and its bound as they are at the end of the run
CountedRun ==
    InjectNode(RunBody, [set |-> Worklist(RunInput), highlights |-> 0],
               Len(RunInput))

\* the loop with a bound the counter cannot reach: every text node is visited
FullRun ==
    InjectNode(RunBody, [set |-> Worklist(RunInput), highlights |-> 0],
               Len(RunInput) + 1)

\* the sentences of the markers of the document, in document order
MarkedSentences(body) ==
    [i \in 1..Len(MarkersIn(body)) |-> TextContent(MarkersIn(body)[i])]

\* C19 as stated, for the runs it is about: in a run whose input holds
\* duplicate sentences and whose document holds two or more of the targets
\* in text nodes the full traversal would wrap, the counter ends the
\* traversal before the last of those nodes and leaves its sentence without
\* a marker.
C19_DuplicatesEndEarly ==
    (/\ InjectorRan
     /\ HasDuplicates(RunInput)
     /\ Len(MarkedSentences(FullRun.out[1])) >= 2) =>
        Len(MarkedSentences(doc)) < Len(MarkedSentences(FullRun.out[1]))

\* C19 amended: the counter of a run never exceeds the number of distinct
\* targets, so it reaches the length of the input only when every target has
\* been wrapped; with duplicates in the input it never reaches it, the
\* traversal visits every text node, and the document is the one the full
\* traversal yields: no target is left without a marker by the counting rule.
C19_CountNeverCutsShort ==
    InjectorRan =>
        /\ doc = FullRun.out[1]
        /\ CountedRun.w.highlights <= Len(Worklist(RunInput))
        /\ CountedRun.w.highlights >= Len(RunInput) => CountedRun.w.set = <<>>
        /\ HasDuplicates(RunInput) => CountedRun.w.highlights < Len(RunInput)

\* a run with a duplicate in its input whose two distinct targets sit in
\* different text nodes: both are wrapped
C19_Witness ==
    /\ InjectorRan
    /\ HasDuplicates(RunInput)
    /\ Len(Worklist(RunInput)) = 2
    /\ MarkersIn(RunBody) = <<>>
    /\ RunBody = PageFlat
    /\ MarkedSentences(doc) = <<<<"a",".">>, <<"b",".">>>>

RECURSIVE TextNodes(_)
\* the texts of the text nodes at n and below it, in document order
TextNodes(n) ==
    IF n.kind = "text" THEN <<n.text>>
    ELSE Flatten([i \in 1..Len(n.kids) |-> TextNodes(n.kids[i])])

RECURSIVE Leaves(_)
\* the text nodes and the markers at n and below it, in document order, a
\* marker standing for what it holds
Leaves(n) ==
    IF n.kind = "text" THEN <<[marker |-> FALSE, text |-> n.text]>>
    ELSE IF IsMarker(n) THEN <<[marker |-> TRUE, text |-> TextContent(n)]>>
    ELSE Flatten([i \in 1..Len(n.kids) |-> Leaves(n.kids[i])])

RECURSIVE OneMarkerPerNode(_, _)
\* what the text nodes `texts` become, one after the other, under the
\* worklist `work`: a node holding none of the sentences stays; a node
\* holding some is cut around the first of them in the order of the
\* worklist, and that sentence leaves the worklist
OneMarkerPerNode(texts, work) ==
    IF texts = <<>> THEN <<>>
    ELSE LET t    == Head(texts)
             hits == {k \in 1..Len(work) : StrIncludes(t, work[k])}
         IN  IF hits = {}
             THEN <<[marker |-> FALSE, text |-> t]>>
                      \o OneMarkerPerNode(Tail(texts), work)
             ELSE LET k == MinOf(hits)
                      s == work[k]
                      i == IndexOf(t, s)
                  IN  <<[marker |-> FALSE, text |-> SubSeq(t, 1, i - 1)],
                        [marker |-> TRUE, text |-> s],
                        [marker |-> FALSE, text |-> SubSeq(t, i + Len(s), Len(t))]>>
                      \o OneMarkerPerNode(Tail(texts),
                             SelectSeq(work, LAMBDA x : x # s))

\* C20: in a run of the injector every text node of the document gets at
\* most one marker, around the first sentence of the remaining worklist, in
\* input order, that the node holds as an exact case-sensitive substring;
\* every distinct target is wrapped at most once in the document; a target
\* that no node holds is skipped, the text of the document staying as it was.
C20_OneMarkerPerNode ==
    InjectorRan =>
        LET marked == MarkedSentences(doc)
        IN  /\ Leaves(doc) = OneMarkerPerNode(TextNodes(RunBody), Worklist(RunInput))
            /\ \A i, j \in 1..Len(marked) : marked[i] = marked[j] => i = j
            /\ \A i \in 1..Len(marked) :
                  /\ \E k \in 1..Len(RunInput) : Trim(RunInput[k]) = marked[i]
                  /\ StrIncludes(TextContent(RunBody), marked[i])
            /\ TextContent(doc) = TextContent(RunBody)

\* a run on a document whose first text node holds two of the targets, with
\* a target in the wrong case first in the input and a target no node holds:
\* the node gets one marker, around the second sentence of the input
C20_Witness ==
    /\ InjectorRan
    /\ RunInput = <<<<"A",".">>, <<"b",".">>, <<"a",".">>>>
    /\ RunBody = PageNested
    /\ MarkedSentences(doc) = <<<<"b",".">>>>
    /\ StrIncludes(TextNodes(RunBody)[1], <<"a",".">>)
    /\ ~StrIncludes(TextContent(RunBody), <<"A",".">>)

(***************************************************************************)
(* Properties of the remover                                               *)
(***************************************************************************)
RECURSIVE TextForMarkers(_)
\* n with every marker at or below it replaced by a text node of its text
TextForMarkers(n) ==
    IF n.kind = "text" THEN n
    ELSE IF IsMarker(n) THEN TextNode(TextContent(n))
    ELSE [n EXCEPT !.kids = [i \in 1..Len(n.kids) |-> TextForMarkers(n.kids[i])]]

RECURSIVE Unmarked(_)
\* the document the remover leaves, told in one pass: below an element that
\* holds a marker as a child every marker is text and the text nodes are
\* merged; an element with no marker child is kept, its children treated
\* the same way
Unmarked(n) ==
    IF n.kind = "text" THEN n
    ELSE IF \E i \in 1..Len(n.kids) : IsMarker(n.kids[i])
         THEN Normalize(TextForMarkers(n))
         ELSE [n EXCEPT !.kids = [i \in 1..Len(n.kids) |-> Unmarked(n.kids[i])]]

\* the remover was the last operation on the document
RemoverRan == trail # <<>> /\ trail[Len(trail)].op = "remove_highlights"

\* C21: after the remover no marker is left in the document; every marker
\* has become plain text equal to its text, merged with the text next to it;
\* a document without markers is left as it was; a marker inside a marker
\* already replaced does not stop the removal of the others.
C21_RemoverLeavesPlainText ==
    RemoverRan =>
        LET before == trail[Len(trail)].before
        IN  /\ MarkersIn(doc) = <<>>
            /\ doc = Unmarked(before)
            /\ TextContent(doc) = TextContent(before)
            /\ MarkersIn(before) = <<>> => doc = before

\* the remover ran on a document that held a marker inside a marker and
\* another marker after them
C21_Witness ==
    /\ RemoverRan
    /\ LET ms == MarkersIn(trail[Len(trail)].before)
       IN  /\ Len(ms) >= 3
           /\ Len(MarkersIn(ms[1])) >= 2
    /\ MarkersIn(doc) = <<>>
    /\ doc # trail[Len(trail)].before

(***************************************************************************)
(* Properties of the scores of the example                                 *)
(***************************************************************************)
BirdsSentence ==
    <<"B","i","r","d","s"," ","c","a","n"," ","f","l","y",".">>

FishSentence ==
    <<"F","i","s","h"," ","l","i","v","e"," ","i","n"," ","w","a","t","e",
      "r",".">>


\* a summarizer was called on the four sentences of the example
ExampleSummarized ==
    /\ fnCall \in {"summarizeText", "extractiveSummarize"}
    /\ fnText = CatsText

\* the score the summarizer gives the sentence s of the example
ExampleScore(s) ==
    LET scored == Scored(Segment(CatsText))
    IN  scored[CHOOSE i \in 1..Len(scored) : scored[i].s = s].score

\* C22 as stated: in the example the scores of "Cats are mammals." and of
\* "Dogs are mammals too." are both strictly greater than the scores of
\* "Birds can fly." and "Fish live in water.".
C22_BothAboveTheRest ==
    ExampleSummarized =>
        \A s \in {CatsSentence, DogsSentence} :
            \A o \in {BirdsSentence, FishSentence} :
                ExampleScore(s) > ExampleScore(o)

\* C22 amended: in the example "Dogs are mammals too." scores 4, strictly
\* more than the three other sentences, which all score 3; "Cats are
\* mammals." is selected as the second of two bullets because it is the
\* first of the three in original order.
C22_CatsTiedWithTheRest ==
    ExampleSummarized =>
        /\ ExampleScore(DogsSentence) = 4
        /\ \A o \in {CatsSentence, BirdsSentence, FishSentence} :
              ExampleScore(o) = 3
        /\ Segment(CatsText) =
               <<CatsSentence, DogsSentence, BirdsSentence, FishSentence>>
        /\ fnArgs.maxBullets = 2 => fnOut.bullets[2] = CatsSentence

\* extractiveSummarize applied to the example with maxBullets = 2
C22_Witness ==
    /\ fnCall = "extractiveSummarize"
    /\ fnText = CatsText
    /\ fnArgs.maxBullets = 2
    /\ fnOut.bullets = <<DogsSentence, CatsSentence>>

(***************************************************************************)
(* Properties of the QA matcher                                            *)
(***************************************************************************)
\* the number of tokens of the question, longer than 2, that the lower-cased
\* sentence holds as a substring
MatchScore(sentence, question) ==
    LET qw == QuestionWords(question)
    IN  Cardinality({k \in 1..Len(qw) : StrIncludes(ToLowerCase(sentence), qw[k])})

\* the tokens of a sentence: one more than its spaces
TokenCount(sentence) ==
    1 + Cardinality({i \in 1..Len(sentence) : sentence[i] = " "})

\* the first sentence of the maximal score, or with every score 0 the first
\* sentence of more than 6 tokens, or the first sentence
MatcherAnswer(text, question) ==
    LET sents == Segment(text)
        n     == Len(sents)
        score == [i \in 1..n |-> MatchScore(sents[i], question)]
        best  == CHOOSE b \in {score[i] : i \in 1..n} :
                     \A i \in 1..n : score[i] <= b
        tops  == {i \in 1..n : score[i] = best}
        long  == {i \in 1..n : TokenCount(sents[i]) > 6}
    IN  IF best > 0 THEN sents[MinOf(tops)]
        ELSE IF long # {} THEN sents[MinOf(long)]
        ELSE sents[1]

\* C23: for a text of at least one sentence the answer of the matcher, in
\* the content script as in the background, is the first sentence of the
\* maximal score, the score being the number of question tokens longer than
\* 2 found in the lower-cased sentence; with the maximal score 0 it is the
\* first sentence of more than 6 tokens, or else the first sentence.
C23_MatcherAnswer ==
    (fnCall = "answerQuestion" /\ Segment(fnText) # <<>>) =>
        /\ fnOut.answer = MatcherAnswer(fnText, fnArgs.question)
        /\ fnOut.bgAnswer = MatcherAnswer(fnText, fnArgs.question)

\* a question that matches nothing, on a text whose second sentence is the
\* only one of more than 6 tokens
C23_Witness ==
    /\ fnCall = "answerQuestion"
    /\ fnText = LongText
    /\ fnArgs.question = <<"x","y","z">>
    /\ fnOut.answer = Segment(LongText)[2]
    /\ TokenCount(fnOut.answer) = 7

\* a question of two tokens on the four sentences: the second sentence holds
\* both and is the answer
C23_WitnessBest ==
    /\ fnCall = "answerQuestion"
    /\ fnText = CatsText
    /\ Len(QuestionWords(fnArgs.question)) = 2
    /\ fnOut.answer = DogsSentence

(***************************************************************************)
(* Properties of the highlights                                            *)
(***************************************************************************)
\* the sentences of the text in score order that are no bullets and have at
\* least 6 tokens
Eligible(text, bullets) ==
    LET ranked == RankedBullets(text, Len(Segment(text)))
    IN  SelectSeq(ranked, LAMBDA s : ~Includes(bullets, s) /\ TokenCount(s) >= 6)

\* the number of highlights that are no padding
Collected(text, bullets, maxHighlights) ==
    Min(maxHighlights, Len(Eligible(text, bullets)))

\* the length below which the highlights are padded
PadFloor(bullets, maxHighlights) == Min(maxHighlights, Len(bullets))

\* C24: the highlights are, in score order, the first maxHighlights
\* sentences that are no bullets and have at least 6 tokens; with fewer of
\* them than min(maxHighlights, bullets.length) the list is padded to exactly
\* that length, and every padding entry is a bullet and not empty.
C24_HighlightsThenPadding ==
    fnCall \in {"summarizeText", "extractiveSummarize"} =>
        LET hl    == fnOut.highlights
            bl    == fnOut.bullets
            el    == Eligible(fnText, bl)
            k     == Collected(fnText, bl, fnArgs.maxHighlights)
            floor == PadFloor(bl, fnArgs.maxHighlights)
        IN  /\ Len(hl) = (IF k < floor THEN floor ELSE k)
            /\ \A i \in 1..k : hl[i] = el[i]
            /\ \A i \in (k + 1)..Len(hl) :
                  /\ hl[i] # <<>>
                  /\ Includes(bl, hl[i])
                  /\ hl[i] = bl[i]

\* a sentence of 6 tokens that is no bullet comes first, and a bullet pads
\* the list to the length of the bullets
C24_Witness ==
    /\ fnCall = "extractiveSummarize"
    /\ Collected(fnText, fnOut.bullets, fnArgs.maxHighlights) = 1
    /\ Len(fnOut.bullets) = 2
    /\ Len(fnOut.highlights) = 2
    /\ ~Includes(fnOut.bullets, fnOut.highlights[1])
    /\ fnOut.highlights[2] = fnOut.bullets[2]

(***************************************************************************)
(* Properties of the segmenter                                             *)
(***************************************************************************)
\* the text with one space for every whitespace run that has a character
\* before it and a character after it, and nothing for the other runs
Squeezed(text) ==
    LET n    == Len(text)
        Ink(i) == ~IsSpace(text[i])
        kept == SelectSeq([i \in 1..n |-> i],
                    LAMBDA i : \/ Ink(i)
                               \/ /\ i > 1
                                  /\ Ink(i - 1)
                                  /\ \E j \in (i + 1)..n : Ink(j))
    IN  [k \in 1..Len(kept) |-> IF Ink(kept[k]) THEN text[kept[k]] ELSE " "]

\* no '.', '!' or '?' of the text has whitespace after it
NoBreak(text) ==
    \A i \in 1..(Len(text) - 1) :
        ~(IsTerminator(text[i]) /\ IsSpace(text[i + 1]))

Blank(text) == \A i \in 1..Len(text) : IsSpace(text[i])

\* C25: the sentences joined with single spaces are the text with its
\* whitespace runs collapsed and trimmed; every sentence is non-empty and
\* trimmed; a text that is not blank and has no terminator followed by
\* whitespace gives exactly one sentence; an empty or blank text gives none.
C25_SegmenterKeepsText ==
    fnCall = "answerQuestion" =>
        LET sents == fnOut.sents
        IN  /\ Join(sents, <<" ">>) = Squeezed(fnText)
            /\ \A i \in 1..Len(sents) :
                  /\ sents[i] # <<>>
                  /\ ~IsSpace(sents[i][1])
                  /\ ~IsSpace(sents[i][Len(sents[i])])
            /\ (NoBreak(fnText) /\ ~Blank(fnText)) => Len(sents) = 1
            /\ Blank(fnText) => sents = <<>>

\* a text that starts with a whitespace run and has three sentences
C25_Witness ==
    /\ fnCall = "answerQuestion"
    /\ fnText # <<>>
    /\ IsSpace(fnText[1])
    /\ Len(fnText) > Len(Squeezed(fnText)) + 2
    /\ Len(fnOut.sents) = 3

\* terminators without whitespace after them: one sentence
C25_WitnessOne ==
    /\ fnCall = "answerQuestion"
    /\ fnText = DottedText
    /\ Len(fnOut.sents) = 1

\* a text of whitespace only: no sentence
C25_WitnessBlank ==
    /\ fnCall = "answerQuestion"
    /\ fnText # <<>>
    /\ Blank(fnText)
    /\ fnOut.sents = <<>>

(***************************************************************************)
(* The Clear button while an ask request is in flight                      *)
(***************************************************************************)
\* a history entry and a page record stored before the clear
OldEntry == HistoryEntry(<<"x","y","z">>, <<"a",".">>)

OldPage ==
    [summary |-> <<<<"a",".">>>>, highlights |-> <<>>, raw |-> <<"o","k">>,
     present |-> TRUE]

\* the store after chrome.storage.local.clear(): no record, no history, no
\* mock flag (!!undefined is false)
ClearedStore == [mock |-> FALSE, page |-> NoPage, hist |-> <<>>]

\* the ask handler of the popup awaits chrome.tabs.query; the Clear button
\* has not been clicked
InitClear ==
    /\ FnQuiet
    /\ DomQuiet
    /\ pageText \in ExtractPages
    /\ store \in {[mock |-> m, page |-> OldPage, hist |-> <<OldEntry>>] :
                     m \in BOOLEAN}
    /\ req = [r \in Reqs |-> IdleReq]
    /\ popup = [r \in Reqs |->
                   IF r = "r1"
                   THEN [pc |-> "starting", action |-> "ask",
                         question |-> <<"t","h","e">>]
                   ELSE IdlePopup]
    /\ histOp = [r \in Reqs |-> NoHistOp]
    /\ ui = [IdleUi EXCEPT !.answerKind = "progress"]
    /\ hlMsgs = <<>>
    /\ pageWrites = <<>>

\* clearBtn click, confirmed: chrome.storage.local.clear is called
ClearClick(r) ==
    /\ popup[r].pc = "idle"
    /\ popup' = [popup EXCEPT ![r].pc = "clearing", ![r].action = "clear"]
    /\ UNCHANGED <<fnVars, domVars, pageText, store, req, histOp, ui, hlMsgs, pageWrites>>

\* the clear takes effect and its callback resumes the handler, which resets
\* the summary and the answer area
ClearCompletes(r) ==
    /\ popup[r].pc = "clearing"
    /\ store' = ClearedStore
    /\ popup' = [popup EXCEPT ![r].pc = "cleared"]
    /\ ui' = [ui EXCEPT !.summaryKind = "placeholder", !.bullets = <<>>,
                        !.answerKind = "empty", !.answer = <<>>,
                        !.history = <<>>]
    /\ UNCHANGED <<fnVars, domVars, pageText, req, histOp, hlMsgs, pageWrites>>

NextClear ==
    \/ AskStep("r1")
    \/ ClearClick("r2")
    \/ ClearCompletes("r2")

SpecClear == InitClear /\ [][NextClear]_vars

(***************************************************************************)
(* The history the popup shows after an answer                             *)
(***************************************************************************)
\* hist.slice(-5).reverse(): the last five entries, the latest first
ShownHistory(hist) ==
    LET n    == Len(hist)
        last == SubSeq(hist, IF n > 5 THEN n - 4 ELSE 1, n)
    IN  [i \in 1..Len(last) |-> last[Len(last) + 1 - i]]

\* the callback of the chrome.storage.local.get of loadHistory(tab.url),
\* which the ask handler called after it had shown the answer
PopupLoadHistory(r) ==
    /\ popup[r].pc = "done"
    /\ popup[r].action = "ask"
    /\ req[r].resp.status = "ok"
    /\ popup' = [popup EXCEPT ![r].pc = "loaded"]
    /\ ui' = [ui EXCEPT !.history = ShownHistory(store.hist)]
    /\ UNCHANGED <<fnVars, domVars, pageText, store, req, histOp, hlMsgs, pageWrites>>

NextHistory ==
    \/ AskStep("r1")
    \/ PopupLoadHistory("r1")

\* one ask request on a page that has a history
SpecHistory == InitClear /\ [][NextHistory]_vars

(***************************************************************************)
(* Properties of the page-text extraction                                  *)
(***************************************************************************)
\* the request was answered with the error of a failed extraction
ExtractionFailed(q) ==
    /\ q.resp.status = "error"
    /\ q.resp.message # <<>>
    /\ q.resp.message[1] = "Failed to extract page text: "

\* the in-page script is called only after the message path has failed; a
\* failed extraction means both have failed, no tier was called and nothing
\* was stored; the text of a request whose timer fired first is the one of
\* the in-page script
ExtractionOrder ==
    \A r \in Reqs :
        LET q == req[r]
        IN  /\ q.ext.script # "idle" =>
                  /\ q.ext.settled = "error"
                  /\ q.ext.by \in {"throw", "lastError", "timer"}
            /\ ExtractionFailed(q) =>
                  /\ q.ext.settled = "error"
                  /\ q.ext.script = "failed"
                  /\ q.responses = 1
                  /\ q.tiers = TiersIdle
                  /\ histOp[r] = NoHistOp
                  /\ store.page = NoPage /\ store.hist = <<>>
                  /\ pageWrites = <<>>
            /\ q.ext.by = "timer" =>
                  /\ q.ext.source # "message"
                  /\ q.ext.source = "script" => q.extracted = pageText

\* the reply of the content script comes after the timer has settled the
\* promise
LateReply(r) ==
    /\ req[r].ext.by = "timer"
    /\ req[r].ext.reply = "pending"
    /\ req'[r].ext.reply = "delivered"

\* a late reply sets `finished` and nothing else
LateReplyChangesNothing ==
    \A r \in Reqs :
        LateReply(r) =>
            /\ req'[r] = [req[r] EXCEPT !.ext.reply = "delivered",
                                        !.ext.finished = TRUE]
            /\ UNCHANGED <<store, histOp, ui, hlMsgs, pageWrites, popup>>

\* C26: extraction fails only after the message path (rejected, or not
\* answered before the timer) and then the in-page script have failed; a
\* reply that comes after the timer has fired changes nothing of the
\* request; a failed extraction is answered with an error, no tier is
\* called and nothing is stored.
C26_ExtractionFailsAfterBothPaths ==
    []ExtractionOrder /\ [][LateReplyChangesNothing]_vars

\* the timer fired first, the in-page script failed, the request was
\* answered with the error, and the reply of the content script came after
C26_Witness ==
    /\ req["r1"].ext.by = "timer"
    /\ req["r1"].ext.reply = "delivered"
    /\ req["r1"].ext.script = "failed"
    /\ ExtractionFailed(req["r1"])

\* the timer fired first, the in-page script returned the text, and the
\* reply of the content script came while a tier was running
C26_WitnessLate ==
    /\ req["r1"].ext.by = "timer"
    /\ req["r1"].ext.reply = "delivered"
    /\ req["r1"].ext.source = "script"
    /\ req["r1"].pc = "tier2"

(***************************************************************************)
(* chrome.storage.local as a map from keys to values: the page records     *)
(* under the URLs, the histories under qa_history_<url>, the mock flag     *)
(***************************************************************************)
Urls == {"u", "v"}

\* 'qa_history_' + url
HistoryKey(url) == "qa_history_" \o url

MockKey == "rifcare_mock_mode"

\* {summary, highlights, raw, updated: Date.now()}
SummaryRecords ==
    {[summary |-> <<"a.">>, highlights |-> <<"h.">>, raw |-> "- a.", updated |-> 1],
     [summary |-> <<>>, highlights |-> <<>>, raw |-> "", updated |-> 2]}

\* message.data of a store_summary message: whatever the sender put there
MessageRecords ==
    {[note |-> "n"], [summary |-> <<"c.">>, note |-> "n"]}

\* the store before anything was written
EmptyStore == [k \in {} |-> FALSE]

\* a variant of set that keeps the fields of the stored record which the new
\* record does not have
StorageSet_KeepsFields(st, key, value) ==
    [k \in DOMAIN st \cup {key} |->
        IF k # key THEN st[k]
        ELSE IF key \in DOMAIN st
        THEN [f \in DOMAIN st[key] \cup DOMAIN value |->
                 IF f \in DOMAIN value THEN value[f] ELSE st[key][f]]
        ELSE value]

\* chrome.storage.local.set({[key]: value})
StorageSet(st, key, value) ==
    [k \in DOMAIN st \cup {key} |-> IF k = key THEN value ELSE st[k]]

\* res[key] || []
StoredList(st, key) == IF key \in DOMAIN st THEN st[key] ELSE <<>>

\* the write is the last operation on the store: what was written under
\* which key, by which part of the extension, and the store before it
Written(op, by, key, value) ==
    trail' = <<[op |-> op, by |-> by, key |-> key, value |-> value,
                before |-> store]>>

InitRecords ==
    /\ FnQuiet
    /\ pageText = NoText
    /\ store = EmptyStore
    /\ req = [r \in Reqs |-> IdleReq]
    /\ popup = [r \in Reqs |-> IdlePopup]
    /\ histOp = [r \in Reqs |-> NoHistOp]
    /\ ui = IdleUi
    /\ hlMsgs = <<>>
    /\ pageWrites = <<>>
    /\ doc = Element("", <<>>)
    /\ cs = IdleCs
    /\ trail = <<>>
    /\ banner = NoBanner

\* popup.js after a summary: o[tab.url] = data; chrome.storage.local.set(o)
RecPopupStore ==
    /\ \E u \in Urls, data \in SummaryRecords :
          /\ store' = StorageSet(store, u, data)
          /\ Written("summary", "popup", u, data)
    /\ UNCHANGED <<fnVars, pageText, req, popup, histOp, ui, hlMsgs, pageWrites,
                   doc, cs, banner>>

\* content script, extract_and_summarize: storeObj[url] = data; set(storeObj)
RecExtractStore ==
    /\ \E u \in Urls, data \in SummaryRecords :
          /\ store' = StorageSet(store, u, data)
          /\ Written("summary", "content", u, data)
    /\ UNCHANGED <<fnVars, pageText, req, popup, histOp, ui, hlMsgs, pageWrites,
                   doc, cs, banner>>

\* content script, store_summary: obj[location.href] = message.data || {}
RecStoreSummary ==
    /\ \E u \in Urls, data \in MessageRecords :
          /\ store' = StorageSet(store, u, data)
          /\ Written("summary", "message", u, data)
    /\ UNCHANGED <<fnVars, pageText, req, popup, histOp, ui, hlMsgs, pageWrites,
                   doc, cs, banner>>

\* an ask request: hist = res[key] || []; hist.push(entry); set({[key]: hist})
RecHistPush ==
    /\ \E u \in Urls :
          LET key  == HistoryKey(u)
              hist == Append(StoredList(store, key),
                             HistoryEntry(<<"t","h","e">>, <<"a",".">>))
          IN  /\ Len(hist) <= MaxHistory
              /\ store' = StorageSet(store, key, hist)
              /\ Written("history", "background", key, hist)
    /\ UNCHANGED <<fnVars, pageText, req, popup, histOp, ui, hlMsgs, pageWrites,
                   doc, cs, banner>>

\* the mock toggle: chrome.storage.local.set({rifcare_mock_mode: checked})
RecMockToggle ==
    /\ \E b \in BOOLEAN :
          /\ store' = StorageSet(store, MockKey, b)
          /\ Written("mock", "popup", MockKey, b)
    /\ UNCHANGED <<fnVars, pageText, req, popup, histOp, ui, hlMsgs, pageWrites,
                   doc, cs, banner>>

NextRecords ==
    \/ RecPopupStore
    \/ RecExtractStore
    \/ RecStoreSummary
    \/ RecHistPush
    \/ RecMockToggle

SpecRecords == InitRecords /\ [][NextRecords]_vars

(***************************************************************************)
(* Properties of storing a summary                                         *)
(***************************************************************************)
\* the last operation on the store was the storing of a summary
SummaryStored == trail # <<>> /\ trail[1].op = "summary"

\* C27: storing a summary for URL u puts the new record under u in place of
\* the whole previous record, and leaves the records of the other URLs, the
\* histories and the mock flag as they were.
C27_SummaryReplacesRecord ==
    SummaryStored =>
        LET t == trail[1]
        IN  /\ DOMAIN store = DOMAIN t.before \cup {t.key}
            /\ store[t.key] = t.value
            /\ DOMAIN store[t.key] = DOMAIN t.value
            /\ \A k \in DOMAIN t.before \ {t.key} : store[k] = t.before[k]

\* a summary was stored for u over a record with a field the new record
\* lacks, while v has a record, both URLs have a history and the flag is set
C27_Witness ==
    /\ SummaryStored
    /\ trail[1].key = "u"
    /\ "u" \in DOMAIN trail[1].before
    /\ "note" \in DOMAIN trail[1].before["u"]
    /\ "note" \notin DOMAIN store["u"]
    /\ {"v", HistoryKey("u"), HistoryKey("v"), MockKey} \subseteq DOMAIN store

(***************************************************************************)
(* Properties of the responses                                             *)
(***************************************************************************)
\* a summarize or ask request is answered at most once, with status ok or
\* status error
BgAtMostOneResponse ==
    \A r \in Reqs :
        /\ req[r].responses <= 1
        /\ req[r].resp.status \in {"none", "ok", "error"}
        /\ req[r].responses = 1 <=> req[r].resp.status # "none"

\* a summarize or ask request that reached the background is answered
BgAnswered ==
    \A r \in Reqs : (req[r].pc # "idle") ~> (req[r].responses = 1)

\* the content script is at work on an extract_and_summarize or ask_question
\* request
CsRequested == cs.pc \notin {"idle", "done"}

CsAnswered == cs.resp.status \in {"ok", "error"}

\* no call of chrome.storage.local is left without its callback
CsCallsSettle == cs.failure # "never completed"

\* C28 for the requests to the content script: a request is answered with
\* status ok or status error and no other, and when no storage call is left
\* unsettled every request is answered.
C28_ExactlyOneResponse ==
    /\ [](cs.resp.status \in {"none", "ok", "error"})
    /\ ([]CsCallsSettle) => (CsRequested ~> CsAnswered)

(***************************************************************************)
(* Properties of the clear                                                 *)
(***************************************************************************)
\* the ask request had read the history and not written it back when the
\* clear completed
ClearedInFlight ==
    /\ popup["r2"].pc = "cleared"
    /\ histOp["r1"].pc \in {"set", "done"}
    /\ Includes(histOp["r1"].list, OldEntry)

\* C29: once the clear has completed, no history entry and no page summary
\* stored before it is in the store, an ask request in flight or not.
C29_ClearedStaysCleared ==
    popup["r2"].pc = "cleared" =>
        /\ ~Includes(store.hist, OldEntry)
        /\ store.page # OldPage

\* an ask request that read the history after the clear stores its entry
\* alone
ClearThenAsk ==
    (popup["r2"].pc = "cleared" /\ ~ClearedInFlight) =>
        /\ ~Includes(store.hist, OldEntry)
        /\ store.page # OldPage

(***************************************************************************)
(* Properties of the history shown after an answer                         *)
(***************************************************************************)
\* the popup got status ok for its question and has read the history
HistoryRead == popup["r1"].pc = "loaded"

\* the entry of the question is among the entries shown
EntryShown ==
    \E i \in 1..Len(ui.history) : ui.history[i].question = popup["r1"].question

ReadBeforeWrite ==
    /\ HistoryRead
    /\ histOp["r1"].pc \in {"get", "set"}
    /\ ~EntryShown

(***************************************************************************)
(* Properties of the model tiers that return                               *)
(***************************************************************************)
\* the source a response names for each model tier
ModelTierSource == [onDevice |-> "chrome.ai", pageContext |-> "window.ai"]

\* the model tier that returned, for a request one of them returned for
ReturnedTier(q) ==
    IF q.tiers.onDevice = "returned" THEN "onDevice" ELSE "pageContext"

\* the value the response carries
ResponseValue(q) ==
    IF q.action = "summarize" THEN q.resp.text ELSE q.resp.answer

\* C31: a tier is started only when the tier before it has thrown; when the
\* on-device or the page-context tier returns a value, the empty string and
\* the JSON text of an unrecognized response included, no later tier is
\* started and the request is answered with status ok, that value and the
\* source of that tier.
C31_ReturnIsTerminal ==
    \A r \in Reqs :
        LET q == req[r]
        IN  /\ q.tiers.pageContext # "idle" => q.tiers.onDevice = "threw"
            /\ q.tiers.extractive # "idle" => q.tiers.pageContext = "threw"
            /\ q.tiers.onDevice = "returned" =>
                  /\ q.tiers.pageContext = "idle"
                  /\ q.tiers.extractive = "idle"
            /\ q.tiers.pageContext = "returned" => q.tiers.extractive = "idle"
            /\ (\E tier \in {"onDevice", "pageContext"} :
                    q.tiers[tier] = "returned") =>
                  /\ q.pc \in {"persist_tab", "done"}
                  /\ q.resp.status # "error"
                  /\ q.pc = "done" =>
                        /\ q.resp.status = "ok"
                        /\ q.responses = 1
                        /\ ResponseValue(q) = q.returned
                        /\ q.resp.source = ModelTierSource[ReturnedTier(q)]

\* the on-device tier returned the empty string for a summarize request: it
\* was answered with status ok and the empty text, no other tier was started
C31_Witness ==
    /\ req["r1"].action = "summarize"
    /\ req["r1"].tiers.onDevice = "returned"
    /\ req["r1"].returned = <<>>
    /\ req["r1"].resp.status = "ok"
    /\ req["r1"].resp.text = <<>>
    /\ req["r1"].tiers.pageContext = "idle"

\* the page-context tier returned the JSON text of an unrecognized response
\* for an ask request, which was answered with it
C31_WitnessJson ==
    /\ req["r1"].action = "ask"
    /\ req["r1"].tiers.pageContext = "returned"
    /\ req["r1"].returned = JsonStringify(<<<< <<"d","o","n","e">>, <<"t","r","u","e">> >>>>)
    /\ req["r1"].resp.status = "ok"
    /\ req["r1"].resp.answer = req["r1"].returned
    /\ req["r1"].tiers.extractive = "idle"

====
